---- MODULE Spec2Model ----
(***************************************************************************)
(* The bean field of src/src/js/particles.js: the instance collection, the *)
(* GSAP animation schedule, the mode machine behind the "Single Bean Mode" *)
(* checkbox, the per-frame drift/wrap tick.                                *)
(*                                                                         *)
(* Units.  Lengths are tenths of a world unit (x = 121 is 12.1), scales    *)
(* are hundredths (scale = 100 is 1.0), angles are quarters of pi          *)
(* (PiU = 4), times are milliseconds.                                      *)
(***************************************************************************)
EXTENDS Integers, Sequences, FiniteSets, TLC

\* ------------------------------------------------------------------ bounds
MainBeans == 2          \* CONFIG.beanCount in Spec
FocusBeans == 3         \* CONFIG.beanCount in FocusSpec
TickBeans == 2          \* CONFIG.beanCount in TickSpec
FrameMs   == 350        \* time between two ticks of the GSAP ticker
MaxFrames == 3          \* frames of the render loop a run follows
MaxRebuilds == 2        \* rebuilds of the shared geometry a run follows
GridSegs == 4           \* largest segmentsU, segmentsV handed to a generator
CreaseNear == 1         \* fragments this many thousandths either side of a crease edge
ExitBeans == 2          \* instances in the field when focus is left
PostReach == 5          \* pixels followed either side of an alpha step, 0.005 apart

\* --------------------------------------------------------- program constants
PiU == 4                \* Math.PI, in angle units
CameraZ == 120          \* camera.position.z = 12
ScaleMin == 10          \* CONFIG.scaleMin = 0.1
ScaleMax == 43          \* CONFIG.scaleMax = 0.43
DefaultSpreadX == 120   \* CONFIG.spreadX = 12
DefaultSpreadY == 80    \* CONFIG.spreadY = 8
WrapMargin == 20        \* the "+ 2" of boundX / boundY
FullScale == 100        \* hero scale 1
HeroCameraOffset == 30  \* camera 3 units in front of the hero
Duration == 1400        \* const duration = 1.4
PopStart == 600         \* const popStart = 0.6
PopStagger == 3         \* i * 0.003
PopUpMs == 100          \* duration: 0.1
PopDownMs == 150        \* duration: 0.15
HeroShrinkMs == 600     \* duration: 0.6
RevealDelay == 150      \* popDelay = 0.15 + ...
RevealStagger == 2      \* ... + i * 0.002
OvershootMs == 120      \* duration: 0.12
SettleMs == 250         \* duration: 0.25
StaggerDelay == 10      \* CONFIG.staggerDelay
AnimationDuration == 1000 \* CONFIG.animationDuration
BaseAspectNum == 16     \* const baseAspect = 16 / 9
BaseAspectDen == 9
SpreadBase == 120       \* 12 * Math.max(0.8, Math.min(1.5, aspectRatio))
RatioMinTenths == 8
RatioMaxTenths == 15

NoBean == 0             \* heroBean = null

VARIABLES
  beanCount,        \* CONFIG.beanCount
  singleBeanMode,   \* CONFIG.singleBeanMode
  cmykEnabled,      \* CONFIG.cmykEnabled
  paused,           \* CONFIG.paused
  spreadX,          \* CONFIG.spreadX
  spreadY,          \* CONFIG.spreadY
  cmykPassEnabled,  \* cmykPass.enabled
  cmykFrames,       \* cmykPass.uniforms.time.value, in frames of 0.016
  isTransitioning,
  heroBean,         \* a bean identity, or NoBean
  beans,            \* the live collection: a sequence of bean identities
  obj,              \* the Mesh objects: position, rotation, scale, userData
  camera,           \* camera.position
  aspect,           \* camera.aspect = width / height, as <<width, height>>
  anims,            \* GSAP's root timeline: tweens and timelines, by start time
  bodySingle,       \* document.body has class 'single-bean-mode'
  scene,            \* the beans that are children of the scene
  beanGeometry,     \* the shared geometry, by the number of the build
  geometry,         \* bean.geometry of each Mesh object
  geo,              \* a run of the geometry generator: arguments, loop state, arrays
  frag,             \* a run of the bean fragment shader: varyings, uniforms, outputs
  post,             \* a run of the CMYK fragment shader: frame, uniforms, outputs
  boot,             \* startup: what init() found, where it is, what it registered
  isDragging,       \* a drag on the canvas is in progress
  previousMousePosition,  \* the pointer position the last drag event saw
  bg,               \* the background page: its scene, frame requests, destroy timers
  dbg,              \* the debug viewer: its flag, its view, its transition
  debounce          \* debounceTimer and the timeouts that are pending

vars == <<beanCount, singleBeanMode, cmykEnabled, paused, spreadX, spreadY, cmykPassEnabled,
          cmykFrames, isTransitioning, heroBean, beans, obj, camera, aspect,
          anims, bodySingle, scene, beanGeometry, geometry, geo, frag, post, boot, isDragging, previousMousePosition, bg, dbg, debounce>>

\* ------------------------------------------------------------------ helpers
\* the background page after its init(): CONFIG.canvas3DEnabled is true, so
\* toggleCanvas3D(true) has built the scene and requested the first frame
Shown ==
  [canvas3DEnabled |-> TRUE, isInitialized |-> TRUE, animationId |-> 1,
   requests |-> {1}, timers |-> 0, frames |-> 0, opacity |-> 1,
   isScrolling |-> TRUE, scrollTimeout |-> TRUE, scrollProgress |-> 0]

\* the debug viewer after its init(): the single bean, no transition
SingleView ==
  [multiBeanMode |-> FALSE, isTransitioning |-> FALSE, view |-> "single",
   tl |-> "none", age |-> 0, multiBeans |-> 0, controls |-> TRUE,
   cmykEnabled |-> FALSE, frames |-> 0, drifted |-> 0]

\* let debounceTimer = null; nothing scheduled
NoTimers ==
  [debounceTimer |-> 0, pending |-> {}, since |-> 0, calls |-> 0,
   bursts |-> 0, fired |-> 0]

Range(s) == {s[i] : i \in 1..Len(s)}

Max(S) == CHOOSE m \in S : \A n \in S : n <= m

RECURSIVE SeqOfSet(_)
SeqOfSet(S) == IF S = {} THEN <<>>
               ELSE LET m == CHOOSE a \in S : \A b \in S : a <= b
                    IN  <<m>> \o SeqOfSet(S \ {m})

\* Every ordering of the elements of the set S (Array.sort with a random
\* comparator: any permutation may come out).
Perms(S) == {p \in [1..Cardinality(S) -> S] : \A a \in S : \E i \in DOMAIN p : p[i] = a}

\* Names of the THREE.Mesh objects.  The live instances are named 1..beanCount;
\* StaleId names the one removed instance something may still refer to (the
\* hero of the population before a reset).
MaxBeans == Max({MainBeans, FocusBeans, TickBeans})
StaleId == MaxBeans + 1
BeanIds == 1..StaleId

Blank == [x |-> 0, y |-> 0, z |-> 0, rot |-> <<0, 0, 0>>, scale |-> 0,
          targetScale |-> 0, vx |-> 0, vy |-> 0, vr |-> <<0, 0, 0>>]

\* No generator or shader run is being followed.
Idle == [fn |-> "idle"]

\* what init() and setupDragToRotate register
Listeners == {"mousedown", "mousemove", "mouseup", "mouseleave",
              "touchstart", "touchmove", "touchend", "resize"}

\* init() has run to its end: the frame callback is scheduled, the listeners
\* are registered
Started == [pc |-> "started", webgl |-> TRUE, canvas |-> TRUE, frame |-> TRUE,
            listeners |-> Listeners]

\* Builds of the shared geometry are numbered from FirstGeometry on; an object
\* nothing refers to has NoGeometry.
NoGeometry == 0
FirstGeometry == 1

\* a spawn that builds its meshes on the geometry of startup
SpawnMeshFirst(current) == FirstGeometry

\* the geometry a spawn builds its meshes on: the global beanGeometry as it
\* is when createBeans runs
SpawnMesh(current) == current

\* new THREE.Mesh(beanGeometry, material) for the beans `made`
Meshed(made, g) == [b \in BeanIds |-> IF b \in made THEN g ELSE NoGeometry]

\* What one iteration of createBeans draws with Math.random() for a bean:
\* x in [-spreadX, spreadX), y in [-spreadY, spreadY), z in [depthMin, depthMax),
\* each rotation in [0, 2 pi), targetScale in [scaleMin, scaleMax).
SpawnXs == {spreadX \div 4}
SpawnYs == {0}
SpawnZs == {0}
SpawnRots == {<<1, 0, 7>>}
SpawnTargets == {ScaleMin}
SpawnVels == {<<0, 0, <<0, 0, 0>>>>}

SpawnChoices ==
  {[x |-> px, y |-> py, z |-> pz, rot |-> r, scale |-> 0, targetScale |-> t,
    vx |-> v[1], vy |-> v[2], vr |-> v[3]] :
     px \in SpawnXs, py \in SpawnYs, pz \in SpawnZs, r \in SpawnRots,
     t \in SpawnTargets, v \in SpawnVels}

\* ------------------------------------------------------------- GSAP schedule
\* A child tween: gsap.to(target[prop], {to, duration}) placed at offset
\* `start` of its parent.  `from` is read from the target when the tween first
\* renders (started).  target 0 with prop "camera" is camera.position.
Tween(target, prop, start, dur, to) ==
  [target |-> target, prop |-> prop, start |-> start, dur |-> dur,
   started |-> FALSE, from |-> to, to |-> to]

\* A child of GSAP's root timeline.  kind "reveal" is a lone gsap.to of
\* revealBeansStaggered (age = -delay until it starts); kinds "single" and
\* "multi" are the gsap.timeline of transitionToSingleBean / ...MultiBean.
Anim(kind, age, kids) == [kind |-> kind, age |-> age, kids |-> kids]

IsTimeline(a) == a.kind \in {"single", "multi"}

\* The root timeline keeps its children sorted by start time, that is by
\* decreasing age; a new child goes behind those that start no later.
RECURSIVE InsertAnim(_, _)
InsertAnim(as, a) ==
  IF as = <<>> THEN <<a>>
  ELSE IF Head(as).age >= a.age THEN <<Head(as)>> \o InsertAnim(Tail(as), a)
  ELSE <<a>> \o as

RECURSIVE InsertAnims(_, _)
InsertAnims(as, new) ==
  IF new = <<>> THEN as ELSE InsertAnims(InsertAnim(as, Head(new)), Tail(new))

\* duration of a timeline: the latest end among its children
TlDuration(kids) == Max({0} \cup {kids[i].start + kids[i].dur : i \in 1..Len(kids)})

\* A value strictly inside a running tween (every ease used keeps a scale
\* positive between a zero end and a positive end).
Mid(a, b) == (a + b + 1) \div 2
Mid3(a, b) == <<Mid(a[1], b[1]), Mid(a[2], b[2]), Mid(a[3], b[3])>>

MidOf(prop, a, b) == IF prop = "scale" THEN Mid(a, b) ELSE Mid3(a, b)

Current(o, cam, target, prop) ==
  IF prop = "camera" THEN cam
  ELSE IF prop = "scale" THEN o[target].scale
  ELSE o[target].rot

\* One tick renders the children of the root timeline in start order, each
\* timeline its own children in turn; the parent of tween k has age `age` in
\* this tick (it had age - FrameMs at the previous one).

\* The tween reads its start value in this tick: it begins.
Begins(k, age) == age - k.start >= 0 /\ ~k.started

\* The tween writes its target in this tick: it has begun, and it had not
\* already reached its end at the previous tick.
Writes(k, age) ==
  /\ age - k.start > 0
  /\ ~(age - k.start - FrameMs >= k.dur /\ k.started)

\* target[prop] once the animations before the i-th and the first j children
\* of the i-th have rendered
ValueAt(as, i, j, o, cam, target, prop) ==
  LET at[p \in (0..Len(as)) \X Nat] ==
        IF p[1] = 0 THEN Current(o, cam, target, prop)
        ELSE IF p[2] = 0
          THEN at[<<p[1] - 1, IF p[1] > 1 THEN Len(as[p[1] - 1].kids) ELSE 0>>]
        ELSE IF /\ as[p[1]].kids[p[2]].target = target
                /\ as[p[1]].kids[p[2]].prop = prop
                /\ Writes(as[p[1]].kids[p[2]], as[p[1]].age + FrameMs)
          THEN IF as[p[1]].age + FrameMs - as[p[1]].kids[p[2]].start
                    >= as[p[1]].kids[p[2]].dur
                 THEN as[p[1]].kids[p[2]].to
               ELSE IF as[p[1]].kids[p[2]].started
                 THEN MidOf(prop, as[p[1]].kids[p[2]].from, as[p[1]].kids[p[2]].to)
               ELSE MidOf(prop, at[<<p[1], p[2] - 1>>], as[p[1]].kids[p[2]].to)
        ELSE at[<<p[1], p[2] - 1>>]
  IN  at[<<i, j>>]

\* target[prop] at the end of the tick
Rendered(as, o, cam, target, prop) ==
  ValueAt(as, Len(as), IF as = <<>> THEN 0 ELSE Len(as[Len(as)].kids), o, cam, target, prop)

RenderedObj(o, cam, as) ==
  [b \in BeanIds |-> [o[b] EXCEPT !.scale = Rendered(as, o, cam, b, "scale"),
                                  !.rot = Rendered(as, o, cam, b, "rotation")]]

RenderedCamera(o, cam, as) == Rendered(as, o, cam, 0, "camera")

RenderedKid(o, cam, as, i, j) ==
  IF Begins(as[i].kids[j], as[i].age + FrameMs)
    THEN [as[i].kids[j] EXCEPT
            !.started = TRUE,
            !.from = ValueAt(as, i, j - 1, o, cam,
                             as[i].kids[j].target, as[i].kids[j].prop)]
    ELSE as[i].kids[j]

RenderedAnims(o, cam, as) ==
  [i \in 1..Len(as) |->
     [as[i] EXCEPT !.age = @ + FrameMs,
                   !.kids = [j \in 1..Len(as[i].kids) |-> RenderedKid(o, cam, as, i, j)]]]

Finished(a) == a.age >= TlDuration(a.kids)

RECURSIVE UnfinishedFrom(_, _)
UnfinishedFrom(as, i) ==
  IF i > Len(as) THEN <<>>
  ELSE IF Finished(as[i]) THEN UnfinishedFrom(as, i + 1)
  ELSE <<as[i]>> \o UnfinishedFrom(as, i + 1)

\* the root timeline drops the animations that have reached their end
Unfinished(as) == UnfinishedFrom(as, 1)

\* gsap.killTweensOf(bean.scale) for every bean in dead: the scale tweens of
\* these beans leave their parents; a lone tween that is killed is gone.
RECURSIVE KeepKids(_, _)
KeepKids(kids, dead) ==
  IF kids = <<>> THEN <<>>
  ELSE IF Head(kids).prop = "scale" /\ Head(kids).target \in dead
         THEN KeepKids(Tail(kids), dead)
  ELSE <<Head(kids)>> \o KeepKids(Tail(kids), dead)

RECURSIVE killTweensOf(_, _)
killTweensOf(as, dead) ==
  IF as = <<>> THEN <<>>
  ELSE LET a == [Head(as) EXCEPT !.kids = KeepKids(@, dead)]
       IN  IF a.kids = <<>> /\ ~IsTimeline(a) THEN killTweensOf(Tail(as), dead)
           ELSE <<a>> \o killTweensOf(Tail(as), dead)

\* the bean objects some scheduled tween still writes to
TweenTargets(as) ==
  UNION {{as[i].kids[j].target : j \in 1..Len(as[i].kids)} : i \in 1..Len(as)} \ {0}

\* --------------------------------------------------------------- the field
\* revealBeansStaggered: one gsap.to(bean.scale, targetScale) per bean, the
\* i-th of the shuffled order delayed by i * staggerDelay.
revealBeansStaggered(o, order) ==
  [i \in 1..Len(order) |->
     Anim("reveal", -((i - 1) * StaggerDelay),
          <<Tween(order[i], "scale", 0, AnimationDuration, o[order[i]].targetScale)>>)]

\* createBeans: beanCount new instances with drawn transforms and scale 0,
\* pushed to beans, then revealed.  draw[i] is what Math.random() gave the
\* i-th instance, shuffle the order revealBeansStaggered sorted them into.
createBeans(o, bs, as, ids, draw, shuffle) ==
  LET o2 == [b \in BeanIds |->
               IF \E i \in 1..Len(ids) : ids[i] = b
                 THEN draw[CHOOSE i \in 1..Len(ids) : ids[i] = b]
                 ELSE o[b]]
      bs2 == bs \o ids
      order == [i \in 1..Len(bs2) |-> bs2[shuffle[i]]]
  IN  [obj |-> o2, beans |-> bs2,
       anims |-> InsertAnims(as, revealBeansStaggered(o2, order))]

\* Objects nothing refers to any more are forgotten.
Collect(o, live) == [b \in BeanIds |-> IF b \in live THEN o[b] ELSE Blank]

\* The removed instance h is from now on named StaleId, in the objects and in
\* every tween that targets it.
RenameKids(kids, h) ==
  [i \in 1..Len(kids) |->
     IF kids[i].target = h THEN [kids[i] EXCEPT !.target = StaleId] ELSE kids[i]]

RenameAnims(as, h) == [i \in 1..Len(as) |-> [as[i] EXCEPT !.kids = RenameKids(@, h)]]

\* a reset that kills every animation, the transition timeline included
resetBeansKillAll(as, bs) == <<>>

\* resetBeans, first half: gsap.killTweensOf(bean.scale) for each live bean
resetBeansKill(as, bs) == killTweensOf(as, Range(bs))

\* a reset that removes nothing from the scene
RemovedNone(sc, bs) == sc

\* the scene after scene.remove(bean) for each live bean
Removed(sc, bs) == sc \ Range(bs)

\* resetBeans: kill the scale tweens of every live bean, remove the beans
\* from the scene, empty the collection, createBeans (which adds each new bean
\* to the scene and to the collection).  The new instances take
\* the names 1..beanCount; a removed instance that heroBean or a tween still
\* refers to lives on under the name StaleId.
resetBeans ==
  \E draw \in [1..beanCount -> SpawnChoices], shuffle \in Perms(1..beanCount) :
    LET as1 == resetBeansKill(anims, beans)
        kept == ({heroBean} \ {NoBean}) \cup TweenTargets(as1)
        h == IF kept = {} THEN NoBean ELSE CHOOSE b \in kept : TRUE
        o1 == [b \in BeanIds |-> IF b = StaleId /\ h # NoBean THEN obj[h] ELSE Blank]
        r == createBeans(o1, <<>>, RenameAnims(as1, h),
                         [i \in 1..beanCount |-> i], draw, shuffle)
    IN  /\ Cardinality(kept) <= 1
        /\ beans' = r.beans
        /\ obj' = r.obj
        /\ anims' = r.anims
        /\ heroBean' = IF heroBean = NoBean THEN NoBean ELSE StaleId
        /\ scene' = (IF Removed(scene, beans) = {} THEN {} ELSE {StaleId})
                       \cup Range(beans')
        /\ geometry' = [b \in BeanIds |->
                          IF b \in Range(beans') THEN SpawnMesh(beanGeometry)
                          ELSE IF b = StaleId /\ h # NoBean THEN geometry[h]
                          ELSE NoGeometry]
        /\ UNCHANGED <<beanCount, singleBeanMode, cmykEnabled, paused, spreadX, spreadY,
                       cmykPassEnabled, cmykFrames, isTransitioning,
                       camera, aspect, bodySingle, beanGeometry, geo, frag, post, boot, isDragging, previousMousePosition, bg, dbg>>

\* the "Reset & Replay" button and the onFinishChange of the spawn sliders
ClickReset == resetBeans /\ UNCHANGED debounce

\* ------------------------------------------------------------ hero selection
\* bean.position.clone().project(camera): NDC x is dx / (aspect * d * tan),
\* NDC y is dy / (d * tan), d the depth in front of the camera.  The squared
\* NDC distance to the centre is Num / (Den * (width * tan)^2).
NdcNum(o, cam, b) ==
  aspect[2] * aspect[2] * (o[b].x - cam[1]) * (o[b].x - cam[1])
  + aspect[1] * aspect[1] * (o[b].y - cam[2]) * (o[b].y - cam[2])

NdcDen(o, cam, b) == (cam[3] - o[b].z) * (cam[3] - o[b].z)

\* a / b < c / d for a, c >= 0 and b, d > 0, by the continued fractions of the
\* two sides (the products a * d and c * b do not fit the integers of TLC)
RECURSIVE LessFrac(_, _, _, _)
LessFrac(a, b, c, d) ==
  IF a \div b # c \div d THEN a \div b < c \div d
  ELSE IF c % d = 0 THEN FALSE
  ELSE IF a % b = 0 THEN TRUE
  ELSE LessFrac(d, c % d, b, a % b)

\* dist(a) < dist(b)
Closer(o, cam, a, b) ==
  LessFrac(NdcNum(o, cam, a), NdcDen(o, cam, a), NdcNum(o, cam, b), NdcDen(o, cam, b))

Visible(o, b) == o[b].scale > 0

\* a loop that skips no bean
CandidateAny(o, b) == TRUE

\* does the loop take bean b as a candidate (hidden beans are skipped)
Candidate(o, b) == Visible(o, b)

\* The forEach of transitionToSingleBean from index i on; best is closestBean,
\* inf says closestDist is still Infinity.
RECURSIVE ClosestFrom(_, _, _, _, _, _)
ClosestFrom(o, cam, bs, i, best, inf) ==
  IF i > Len(bs) THEN best
  ELSE IF Candidate(o, bs[i]) /\ (inf \/ Closer(o, cam, bs[i], best))
         THEN ClosestFrom(o, cam, bs, i + 1, bs[i], FALSE)
  ELSE ClosestFrom(o, cam, bs, i + 1, best, inf)

closestBean(o, cam, bs) == ClosestFrom(o, cam, bs, 1, bs[1], TRUE)

\* ------------------------------------------------------------ normalizeAngle
RECURSIVE WhileAbove(_)
WhileAbove(angle) == IF angle > PiU THEN WhileAbove(angle - PiU * 2) ELSE angle

RECURSIVE WhileBelow(_)
WhileBelow(angle) == IF angle < -PiU THEN WhileBelow(angle + PiU * 2) ELSE angle

\* the first loop alone
normalizeAngleDown(angle) == WhileAbove(angle)

\* while (angle > Math.PI) angle -= 2 pi; while (angle < -Math.PI) angle += 2 pi
normalizeAngle(angle) == WhileBelow(WhileAbove(angle))

\* ------------------------------------------------------------- transitions
\* a filter that lets the hero through
OthersAndHero(bs, hero) == Range(bs)

Others(bs, hero) == {b \in Range(bs) : b # hero}

\* "Pop away other beans with stagger": up to 1.3 x the current scale, then 0
PopAway(o, order) ==
  [n \in 1..(2 * Len(order)) |->
     LET i == (n - 1) \div 2
         b == order[i + 1]
     IN  IF n % 2 = 1
           THEN Tween(b, "scale", PopStart + i * PopStagger, PopUpMs,
                      (o[b].scale * 13) \div 10)
           ELSE Tween(b, "scale", PopStart + i * PopStagger + PopUpMs, PopDownMs, 0)]

\* "Pop-reveal all other beans with stagger": up to 1.4 x target, then target
PopReveal(o, order) ==
  [n \in 1..(2 * Len(order)) |->
     LET i == (n - 1) \div 2
         b == order[i + 1]
     IN  IF n % 2 = 1
           THEN Tween(b, "scale", RevealDelay + i * RevealStagger, OvershootMs,
                      (o[b].targetScale * 14) \div 10)
           ELSE Tween(b, "scale", RevealDelay + i * RevealStagger + OvershootMs,
                      SettleMs, o[b].targetScale)]

\* a halo that both transitions switch off
HaloOff(single) == FALSE

\* CONFIG.cmykEnabled / cmykPass.enabled as the transition to `single` sets them
HaloFor(single) == ~single

transitionToSingleBean ==
  LET hero == closestBean(obj, camera, beans)
      h == obj[hero]
      rot == <<normalizeAngle(h.rot[1]), normalizeAngle(h.rot[2]),
               normalizeAngle(h.rot[3])>>
  IN  \E order \in Perms(Others(beans, hero)) :
        /\ heroBean' = hero
        /\ obj' = Collect([obj EXCEPT ![hero].rot = rot], Range(beans))
        /\ cmykEnabled' = HaloFor(TRUE)
        /\ cmykPassEnabled' = HaloFor(TRUE)
        /\ anims' = InsertAnim(anims, Anim("single", 0,
              <<Tween(0, "camera", 0, Duration, <<h.x, h.y, h.z + HeroCameraOffset>>),
                Tween(hero, "scale", 0, Duration, FullScale),
                Tween(hero, "rotation", 0, Duration, <<0, 0, 0>>)>>
              \o PopAway(obj, order)))
        /\ geometry' = [b \in BeanIds |->
                          IF b \in Range(beans) THEN geometry[b] ELSE NoGeometry]
        /\ UNCHANGED <<beanCount, paused, spreadX, spreadY, cmykFrames, beans, camera,
                     aspect, bodySingle, scene, beanGeometry, geo, frag, post, boot, isDragging, previousMousePosition, bg, dbg, debounce>>

\* transitionToMultiBean, with the values its Math.random() calls can give for
\* the hero's target scale and velocities and for the others' coordinates
ExitFocus(targets, vels, xs, ys, zs) ==
  \E order \in Perms(Others(beans, heroBean)),
     t \in targets, v \in vels,
     pos \in [Others(beans, heroBean) -> xs \X ys \X zs] :
    LET o1 == IF heroBean = NoBean THEN obj
              ELSE [obj EXCEPT ![heroBean].targetScale = t, ![heroBean].vx = v[1],
                               ![heroBean].vy = v[2], ![heroBean].vr = v[3]]
        o2 == [b \in BeanIds |->
                 IF b \in Others(beans, heroBean)
                   THEN [o1[b] EXCEPT !.x = pos[b][1], !.y = pos[b][2], !.z = pos[b][3]]
                   ELSE o1[b]]
    IN  /\ bodySingle' = FALSE
        /\ cmykEnabled' = HaloFor(FALSE)
        /\ cmykPassEnabled' = HaloFor(FALSE)
        /\ obj' = o2
        /\ anims' = InsertAnim(anims, Anim("multi", 0,
              <<Tween(0, "camera", 0, Duration, <<0, 0, CameraZ>>)>>
              \o (IF heroBean = NoBean THEN <<>>
                  ELSE <<Tween(heroBean, "scale", 0, HeroShrinkMs, t)>>)
              \o PopReveal(o2, order)))
        /\ UNCHANGED <<beanCount, paused, spreadX, spreadY, cmykFrames, beans, camera,
                     aspect, heroBean,
                 scene, beanGeometry, geometry, geo, frag, post, boot, isDragging, previousMousePosition, bg, dbg, debounce>>

transitionToMultiBean ==
  ExitFocus(SpawnTargets, SpawnVels, SpawnXs, SpawnYs, SpawnZs)

\* a handler without the early return
RejectedNever == FALSE

\* the early return of toggleSingleBeanMode
Rejected == isTransitioning

\* a rejected request that leaves the requested value in place
NotReverted(enabled) == enabled

\* CONFIG.singleBeanMode after a rejected request for `enabled`
Reverted(enabled) == ~enabled

\* toggleSingleBeanMode(enabled), entered with CONFIG.singleBeanMode = enabled
\* already written by the checkbox.
toggleSingleBeanMode(enabled) ==
  IF Rejected
    THEN /\ singleBeanMode' = Reverted(enabled)
         /\ UNCHANGED <<beanCount, cmykEnabled, paused, spreadX, spreadY, cmykPassEnabled,
                        cmykFrames, isTransitioning, heroBean, beans, obj, camera,
                        aspect, anims, bodySingle,
                 scene, beanGeometry, geometry, geo, frag, post, boot, isDragging, previousMousePosition, bg, dbg, debounce>>
    ELSE /\ singleBeanMode' = enabled
         /\ isTransitioning' = TRUE
         /\ IF enabled THEN transitionToSingleBean ELSE transitionToMultiBean

\* a checkbox that reports the value it already had
CheckedSame(value) == value

\* the value a click on a checkbox showing `value` writes and reports
Checked(value) == ~value

\* A click on the "Single Bean Mode" checkbox: lil-gui writes the flipped
\* value to CONFIG.singleBeanMode and calls onChange with it.
ClickSingleBeanMode == toggleSingleBeanMode(Checked(singleBeanMode))

\* A click on the "CMYK Halo" checkbox
ClickCmyk ==
  /\ cmykEnabled' = ~cmykEnabled
  /\ cmykPassEnabled' = ~cmykEnabled
  /\ UNCHANGED <<beanCount, singleBeanMode, paused, spreadX, spreadY, cmykFrames,
                 isTransitioning, heroBean, beans, obj, camera, aspect, anims,
                 bodySingle,
                 scene, beanGeometry, geometry, geo, frag, post, boot, isDragging, previousMousePosition, bg, dbg, debounce>>

\* ------------------------------------------------------------- GSAP ticker
\* a class that every completed timeline adds
ClassAddedByAny(done, has) == done # {} \/ has

\* document.body.classList.add('single-bean-mode') in the onComplete of the
\* enter-focus timeline
ClassAdded(done, has) == IF "single" \in done THEN TRUE ELSE has

\* onComplete of the timelines that finish in this tick
Completed(as) == {as[i].kind : i \in {j \in 1..Len(as) : IsTimeline(as[j]) /\ Finished(as[j])}}

GsapTick ==
  /\ anims # <<>>
  /\ UNCHANGED <<beanCount, singleBeanMode, cmykEnabled, paused, spreadX, spreadY,
                 cmykPassEnabled, cmykFrames, heroBean, beans, aspect,
                 scene, beanGeometry, geometry, geo, frag, post, boot, isDragging, previousMousePosition, bg, dbg, debounce>>
  /\ \E rendered \in {RenderedAnims(obj, camera, anims)} :
        /\ anims' = Unfinished(rendered)
        /\ bodySingle' = ClassAdded(Completed(rendered), bodySingle)
        /\ isTransitioning' = IF Completed(rendered) # {} THEN FALSE ELSE isTransitioning
  /\ obj' = RenderedObj(obj, camera, anims)
  /\ camera' = RenderedCamera(obj, camera, anims)

\* ------------------------------------------------------ the program, d = 1
\* init(): scene, camera at z = 12, cmykPass.enabled = CONFIG.cmykEnabled,
\* createBeans(), the GUI.
Init ==
  /\ beanCount = MainBeans
  /\ singleBeanMode = FALSE
  /\ cmykEnabled = TRUE
  /\ paused = FALSE
  /\ spreadX = DefaultSpreadX
  /\ spreadY = DefaultSpreadY
  /\ cmykPassEnabled = TRUE
  /\ cmykFrames = 0
  /\ isTransitioning = FALSE
  /\ heroBean = NoBean
  /\ camera = <<0, 0, CameraZ>>
  /\ aspect = <<BaseAspectNum, BaseAspectDen>>
  /\ bodySingle = FALSE
  /\ beanGeometry = FirstGeometry
  /\ geo = Idle
  /\ frag = Idle
  /\ post = Idle
  /\ boot = Started
  /\ isDragging = FALSE
  /\ previousMousePosition = <<0, 0>>
  /\ bg = Shown
  /\ dbg = SingleView
  /\ debounce = NoTimers
  /\ \E draw \in [1..beanCount -> SpawnChoices], shuffle \in Perms(1..beanCount) :
       LET r == createBeans([b \in BeanIds |-> Blank], <<>>, <<>>,
                            [i \in 1..beanCount |-> i], draw, shuffle)
       IN  /\ beans = r.beans
           /\ obj = r.obj
           /\ anims = r.anims
           /\ scene = Range(r.beans)
           /\ geometry = Meshed(Range(r.beans), FirstGeometry)

Next ==
  \/ ClickSingleBeanMode
  \/ ClickCmyk
  \/ ClickReset
  \/ GsapTick

Spec == Init /\ [][Next]_vars

\* The GSAP ticker runs on every animation frame: a scheduled tick happens.
FairSpec == Spec /\ WF_vars(GsapTick)

\* ------------------------------------------------------- the mode machine
\* The four states of the mode machine, as the code tells them apart
\* (onDragStart, animate): by CONFIG.singleBeanMode and isTransitioning.
Mode ==
  IF isTransitioning
    THEN IF singleBeanMode THEN "EnteringFocus" ELSE "ExitingFocus"
    ELSE IF singleBeanMode THEN "Focused" ELSE "Aggregate"

TimelineCount == Cardinality({i \in 1..Len(anims) : IsTimeline(anims[i])})

\* a step in which toggleSingleBeanMode accepts a request
Accepted == ~isTransitioning /\ isTransitioning'

\* C1: while a transition is in flight no step (so no mode-change request)
\* changes the mode other than the completion of the timeline, and none adds
\* a timeline; at most one transition timeline exists at any time.
C1_OneTimeline ==
  [][/\ TimelineCount' <= 1
     /\ isTransitioning => /\ TimelineCount' <= TimelineCount
                           /\ isTransitioning' => Mode' = Mode]_vars

\* a transition is in flight, its single timeline is running and has made
\* progress: every request that arrives here is rejected
C1_Witness ==
  /\ isTransitioning
  /\ TimelineCount = 1
  /\ \E i \in 1..Len(anims) : IsTimeline(anims[i]) /\ anims[i].age > 0

\* C2: a request that is rejected because a transition is in flight leaves
\* CONFIG.singleBeanMode at the value it had before the request (the flip the
\* checkbox made is reverted).
C2_FlagReverted == [][isTransitioning => singleBeanMode' = singleBeanMode]_vars

\* an exit transition in flight with the flag still false: a click here has
\* flipped the flag to true and the handler has put it back
C2_Witness == isTransitioning /\ ~singleBeanMode /\ heroBean # NoBean

CycleSteps ==
  {<<"Aggregate", "EnteringFocus">>, <<"EnteringFocus", "Focused">>,
   <<"Focused", "ExitingFocus">>, <<"ExitingFocus", "Aggregate">>}

\* C3: the machine starts in Aggregate and every change of its state is a
\* step of the cycle Aggregate -> EnteringFocus -> Focused -> ExitingFocus
\* -> Aggregate.
C3_CyclicOrder ==
  /\ Mode = "Aggregate"
  /\ [][Mode' # Mode => <<Mode, Mode'>> \in CycleSteps]_vars

\* back in Aggregate after a whole cycle (only entering focus sets heroBean)
C3_Witness == Mode = "Aggregate" /\ heroBean # NoBean

\* C4: every accepted transition completes: EnteringFocus leads to Focused
\* and ExitingFocus leads to Aggregate, also when resetBeans runs meanwhile.
C4_TransitionsComplete ==
  /\ (Mode = "EnteringFocus") ~> (Mode = "Focused")
  /\ (Mode = "ExitingFocus") ~> (Mode = "Aggregate")

\* focus was entered although resetBeans ran during the transition: the hero
\* chosen at its start is no longer a live instance
C4_Witness == Mode = "Focused" /\ heroBean = StaleId /\ anims = <<>>

\* C7 as claimed: Focused implies the halo pass is disabled and Aggregate
\* implies it is active, whatever the halo checkbox did.
C7_HaloFollowsMode ==
  /\ Mode = "Focused" => ~cmykPassEnabled
  /\ Mode = "Aggregate" => cmykPassEnabled

\* C7, amended: an accepted enter-focus request disables the halo pass, an
\* accepted exit request enables it, and every other change of the pass is a
\* change of CONFIG.cmykEnabled (the halo checkbox), never a timeline
\* completion.
C7_HaloSetByTransition ==
  [][/\ Accepted => cmykPassEnabled' = ~singleBeanMode'
     /\ (cmykPassEnabled' # cmykPassEnabled /\ ~Accepted)
          => (cmykEnabled' # cmykEnabled /\ isTransitioning' = isTransitioning)]_vars

\* the exit transition has switched the halo back on
C7_Witness == Mode = "ExitingFocus" /\ cmykPassEnabled /\ cmykEnabled

\* ---------------------------------------------------- entering focus, FocusSpec
\* The aggregate view some time after a spawn, when focus is requested: every
\* instance has drifted to a position and a rotation of its own and is either
\* revealed (scale = targetScale) or still waiting for its entrance tween
\* (scale 0).  Rotations leave [0, 2 pi) by drifting with either sign.  The
\* last position lies deeper in the scene and projects onto the same NDC
\* distance as the second one.
FocusPositions ==
  {<<90, 0, 0>>, <<5, 0, 0>>, <<40, 0, 0>>, <<0, 30, 0>>, <<10, 0, -120>>}

FocusAngles == (-3 * PiU - 1)..(3 * PiU + 1)

AtRest(pos, rot, visible) ==
  [x |-> pos[1], y |-> pos[2], z |-> pos[3], rot |-> rot,
   scale |-> IF visible THEN ScaleMin ELSE 0, targetScale |-> ScaleMin,
   vx |-> 0, vy |-> 0, vr |-> <<0, 0, 0>>]

\* the entrance tweens of the instances that are still hidden
RECURSIVE Waiting(_, _)
Waiting(o, i) ==
  IF i = 0 THEN <<>>
  ELSE Waiting(o, i - 1) \o
       (IF o[i].scale = 0
          THEN <<Anim("reveal", -(i * StaggerDelay),
                      <<Tween(i, "scale", 0, AnimationDuration, o[i].targetScale)>>)>>
          ELSE <<>>)

InitFocusField(o) ==
  /\ beanCount = FocusBeans
  /\ singleBeanMode = FALSE
  /\ cmykEnabled = TRUE
  /\ paused = FALSE
  /\ spreadX = DefaultSpreadX
  /\ spreadY = DefaultSpreadY
  /\ cmykPassEnabled = TRUE
  /\ cmykFrames = 0
  /\ isTransitioning = FALSE
  /\ heroBean = NoBean
  /\ camera = <<0, 0, CameraZ>>
  /\ aspect = <<BaseAspectNum, BaseAspectDen>>
  /\ bodySingle = FALSE
  /\ beans = [i \in 1..FocusBeans |-> i]
  /\ obj = o
  /\ anims = Waiting(o, FocusBeans)
  /\ scene = 1..FocusBeans
  /\ beanGeometry = FirstGeometry
  /\ geometry = Meshed(1..FocusBeans, FirstGeometry)
  /\ geo = Idle
  /\ frag = Idle
  /\ post = Idle
  /\ boot = Started
  /\ isDragging = FALSE
  /\ previousMousePosition = <<0, 0>>
  /\ bg = Shown
  /\ dbg = SingleView
  /\ debounce = NoTimers

InitFocus ==
  \/ \E pos \in [1..FocusBeans -> FocusPositions], vis \in [1..FocusBeans -> BOOLEAN] :
       /\ \A a, b \in 1..FocusBeans : pos[a] = pos[b] => a = b
       /\ InitFocusField([b \in BeanIds |->
          IF b <= FocusBeans THEN AtRest(pos[b], <<1, 0, 7>>, vis[b]) ELSE Blank])
  \/ \E a \in FocusAngles :
       InitFocusField([b \in BeanIds |->
          IF b <= FocusBeans THEN AtRest(<<10 * b, 0, 0>>, <<a, a + PiU, -a>>, TRUE)
          ELSE Blank])

NextFocus ==
  \/ ClickSingleBeanMode
  \/ GsapTick

FocusSpec == InitFocus /\ [][NextFocus]_vars

\* a step in which focus is entered
Entered == Accepted /\ singleBeanMode'

VisibleBeans == {b \in Range(beans) : obj[b].scale > 0}

\* C5: on Aggregate -> EnteringFocus the hero is a visible instance (when
\* there is one) and no visible instance is closer to the screen centre in
\* NDC than the hero.
C5_HeroIsClosestVisible ==
  [][(Entered /\ VisibleBeans # {}) =>
       /\ heroBean' \in VisibleBeans
       /\ \A b \in VisibleBeans : ~Closer(obj, camera, b, heroBean')]_vars

\* the example of the spec: the instances at NDC distances 0.9, 0.05, 0.4
\* (x = 9.0, 0.5, 4.0 at depth 12), all visible; the second one is the hero
C5_Witness ==
  /\ Mode = "EnteringFocus"
  /\ obj[1].x = 90 /\ obj[2].x = 5 /\ obj[3].x = 40
  /\ \A b \in 1..3 : obj[b].z = 0 /\ obj[b].y = 0 /\ obj[b].scale > 0
  /\ heroBean = 2

Congruent(a, b) == (a - b) % (2 * PiU) = 0

\* C6 as claimed: entering focus leaves each rotation component of the hero
\* congruent to what it was and in the half-open interval (-pi, pi].
C6_HalfOpenInterval ==
  [][Entered =>
       \A k \in 1..3 : /\ Congruent(obj'[heroBean'].rot[k], obj[heroBean'].rot[k])
                       /\ -PiU < obj'[heroBean'].rot[k]
                       /\ obj'[heroBean'].rot[k] <= PiU]_vars

\* C6, amended: the result is congruent to the input and in the closed
\* interval [-pi, pi]; it is -pi exactly for the inputs -pi, -3 pi, ...
C6_ClosedInterval ==
  [][Entered =>
       \A k \in 1..3 : /\ Congruent(obj'[heroBean'].rot[k], obj[heroBean'].rot[k])
                       /\ -PiU <= obj'[heroBean'].rot[k]
                       /\ obj'[heroBean'].rot[k] <= PiU
                       /\ (obj'[heroBean'].rot[k] = -PiU
                             => obj[heroBean'].rot[k] <= -PiU)]_vars

\* focus is being entered with a hero whose x rotation was normalized to -pi
\* (from -pi or -3 pi) and whose y rotation was normalized to 0
C6_Witness ==
  /\ Mode = "EnteringFocus"
  /\ \E i \in 1..Len(anims) : IsTimeline(anims[i]) /\ anims[i].age = 0
  /\ obj[heroBean].rot = <<-PiU, 0, PiU>>

\* ------------------------------------------------------ the render loop, TickSpec
\* bean.scale.x > 0: the instance takes part in the drift
DriftsAlways(o, b) == TRUE

Drifts(o, b) == o[b].scale > 0

\* a coordinate that stays on the side it left
WrapClamp(p, bound) ==
  IF p > bound THEN bound ELSE IF p < -bound THEN -bound ELSE p

\* a coordinate that is mirrored through the origin
WrapMirror(p, bound) ==
  IF p > bound \/ p < -bound THEN -p ELSE p

\* the first test alone
WrapOneSided(p, bound) ==
  IF p > bound THEN -bound ELSE p

\* if (p > bound) p = -bound; if (p < -bound) p = bound;
Wrap(p, bound) ==
  LET p1 == IF p > bound THEN -bound ELSE p
  IN  IF p1 < -bound THEN bound ELSE p1

\* the body of beans.forEach in animate, for one instance
Drift(o, b, sx, sy) ==
  IF Drifts(o, b)
    THEN [o[b] EXCEPT
            !.x = Wrap(o[b].x + o[b].vx, sx + WrapMargin),
            !.y = Wrap(o[b].y + o[b].vy, sy + WrapMargin),
            !.rot = <<o[b].rot[1] + o[b].vr[1],
                      o[b].rot[2] + o[b].vr[2],
                      o[b].rot[3] + o[b].vr[3]>>]
    ELSE o[b]

\* the field advances in every frame but a paused one
AdvancingUnlessPaused == ~paused

\* !CONFIG.singleBeanMode && !CONFIG.paused: the frame advances the field
Advancing == ~singleBeanMode /\ ~paused

\* one frame of requestAnimationFrame(animate)
animate ==
  /\ boot.frame
  /\ cmykFrames < MaxFrames
  /\ cmykFrames' = cmykFrames + 1
  /\ obj' = IF Advancing
              THEN [b \in BeanIds |->
                      IF b \in Range(beans) THEN Drift(obj, b, spreadX, spreadY)
                      ELSE obj[b]]
              ELSE obj
  /\ UNCHANGED <<beanCount, singleBeanMode, cmykEnabled, paused, spreadX, spreadY,
                 cmykPassEnabled, isTransitioning, heroBean, beans, camera,
                 aspect, anims, bodySingle,
                 scene, beanGeometry, geometry, geo, frag, post, boot, isDragging, previousMousePosition, bg, dbg, debounce>>

\* the Pause checkbox of the panel, which init() sets up
ClickPaused ==
  /\ boot.pc = "started"
  /\ paused' = ~paused
  /\ UNCHANGED <<beanCount, singleBeanMode, cmykEnabled, spreadX, spreadY,
                 cmykPassEnabled, cmykFrames, isTransitioning, heroBean, beans,
                 obj, camera, aspect, anims, bodySingle,
                 scene, beanGeometry, geometry, geo, frag, post, boot, isDragging, previousMousePosition, bg, dbg, debounce>>

\* 12 * Math.max(0.8, Math.min(1.5, (width / height) / (16 / 9)))
ResizedSpreadX(width, height) ==
  LET num == width * BaseAspectDen
      den == height * BaseAspectNum
  IN  IF 10 * num < RatioMinTenths * den THEN (SpreadBase * RatioMinTenths) \div 10
      ELSE IF 10 * num > RatioMaxTenths * den THEN (SpreadBase * RatioMaxTenths) \div 10
      ELSE (SpreadBase * num) \div den

WindowSizes == {<<4, 3>>, <<8, 5>>, <<32, 9>>}

performResize ==
  \E size \in WindowSizes :
     /\ "resize" \in boot.listeners
     /\ size[1] # 0 /\ size[2] # 0
     /\ aspect' = size
     /\ spreadX' = ResizedSpreadX(size[1], size[2])
     /\ UNCHANGED <<beanCount, singleBeanMode, cmykEnabled, paused, spreadY,
                    cmykPassEnabled, cmykFrames, isTransitioning, heroBean, beans,
                    obj, camera, anims, bodySingle,
                 scene, beanGeometry, geometry, geo, frag, post, boot, isDragging, previousMousePosition, bg, dbg, debounce>>

\* The field at the start of a frame.  The width is the default or one set on
\* the panel (5 or 10 world units, the spawn having used the width of before);
\* the motions put an instance inside the bounds, on a bound, or past one.
TickWidths == {50, 100, DefaultSpreadX}

TickMotions ==
  {[x |-> 105,  y |-> 0,    vx |-> 0,  vy |-> 0],
   [x |-> 120,  y |-> 99,   vx |-> 1,  vy |-> 2],
   [x |-> 69,   y |-> -100, vx |-> 10, vy |-> -1],
   [x |-> -120, y |-> 0,    vx |-> -1, vy |-> 0]}

Moving(m, visible) ==
  [x |-> m.x, y |-> m.y, z |-> 0, rot |-> <<1, 0, 7>>,
   scale |-> IF visible THEN ScaleMin ELSE 0, targetScale |-> ScaleMin,
   vx |-> m.vx, vy |-> m.vy, vr |-> <<1, -1, 0>>]

InitTick ==
  \E w \in TickWidths, m \in [1..TickBeans -> TickMotions],
     vis \in [1..TickBeans -> BOOLEAN] :
     LET o == [b \in BeanIds |-> IF b <= TickBeans THEN Moving(m[b], vis[b]) ELSE Blank]
     IN  /\ beanCount = TickBeans
         /\ singleBeanMode = FALSE
         /\ cmykEnabled = TRUE
         /\ paused = FALSE
         /\ spreadX = w
         /\ spreadY = DefaultSpreadY
         /\ cmykPassEnabled = TRUE
         /\ cmykFrames = 0
         /\ isTransitioning = FALSE
         /\ heroBean = NoBean
         /\ camera = <<0, 0, CameraZ>>
         /\ aspect = <<BaseAspectNum, BaseAspectDen>>
         /\ bodySingle = FALSE
         /\ beans = [i \in 1..TickBeans |-> i]
         /\ obj = o
         /\ anims = Waiting(o, TickBeans)
         /\ scene = 1..TickBeans
         /\ beanGeometry = FirstGeometry
         /\ geometry = Meshed(1..TickBeans, FirstGeometry)
         /\ geo = Idle
         /\ frag = Idle
         /\ post = Idle
         /\ boot = Started
         /\ isDragging = FALSE
         /\ previousMousePosition = <<0, 0>>
         /\ bg = Shown
         /\ dbg = SingleView
         /\ debounce = NoTimers

NextTick ==
  \/ animate
  \/ ClickPaused
  \/ performResize

TickSpec == InitTick /\ [][NextTick]_vars

\* a frame in which the field is advanced
Ticked == cmykFrames' # cmykFrames /\ ~singleBeanMode /\ ~paused

BoundX == spreadX + WrapMargin
BoundY == spreadY + WrapMargin

Inside(p, bound) == -bound <= p /\ p <= bound

\* C8: a tick leaves an instance whose scale is not greater than 0 as it is;
\* an instance with scale > 0 has its rotation advanced by its angular
\* velocity and its position by its velocity (the integrated coordinate is
\* replaced only when it lies outside the bounds, by the wrap).
C8_OnlyVisibleAdvance ==
  [][Ticked =>
       \A b \in Range(beans) :
          IF obj[b].scale > 0
            THEN /\ \A k \in 1..3 : obj'[b].rot[k] = obj[b].rot[k] + obj[b].vr[k]
                 /\ Inside(obj[b].x + obj[b].vx, BoundX) => obj'[b].x = obj[b].x + obj[b].vx
                 /\ Inside(obj[b].y + obj[b].vy, BoundY) => obj'[b].y = obj[b].y + obj[b].vy
                 /\ obj'[b].scale = obj[b].scale /\ obj'[b].z = obj[b].z
            ELSE obj'[b] = obj[b]]_vars

\* after a tick: a hidden instance that was out of bounds and had a velocity
\* is still where it was, next to a visible one that has turned and wrapped
C8_Witness ==
  /\ cmykFrames > 0
  /\ \E a, b \in Range(beans) :
        /\ obj[a].scale = 0 /\ obj[a].x = -120 /\ obj[a].vx = -1 /\ spreadX = 50
        /\ obj[a].rot = <<1, 0, 7>>
        /\ obj[b].scale > 0 /\ obj[b].rot = <<2, -1, 7>> /\ obj[b].x = -BoundX

\* C9: after integration a coordinate beyond +(spread+2) is set to
\* -(spread+2), one beyond -(spread+2) is set to +(spread+2), and one inside
\* is left as integrated; it is never clamped to the side it left.
C9_ToroidalWrap ==
  [][Ticked =>
       \A b \in Range(beans) : obj[b].scale > 0 =>
          LET ix == obj[b].x + obj[b].vx
              iy == obj[b].y + obj[b].vy
          IN  /\ obj'[b].x = IF ix > BoundX THEN -BoundX
                             ELSE IF ix < -BoundX THEN BoundX ELSE ix
              /\ obj'[b].y = IF iy > BoundY THEN -BoundY
                             ELSE IF iy < -BoundY THEN BoundY ELSE iy]_vars

\* after a tick: one visible instance has left on the left and on the bottom
\* and sits on the right and top bounds
C9_Witness ==
  /\ cmykFrames = 1
  /\ spreadX = 50
  /\ \E b \in Range(beans) :
        /\ obj[b].scale > 0 /\ obj[b].vx = 10 /\ obj[b].vy = -1
        /\ obj[b].x = -BoundX /\ obj[b].y = BoundY

\* C10 as claimed: an instance whose integrated x exceeds the bound ends the
\* tick at minus the integrated x (12.1 -> -12.1, 7.9 -> -7.9).
C10_MirroredExamples ==
  [][Ticked =>
       \A b \in Range(beans) : obj[b].scale > 0 =>
          LET ix == obj[b].x + obj[b].vx
          IN  /\ (spreadX = 100 /\ ix = 105) => obj'[b].x = 105
              /\ (spreadX = 100 /\ ix = 121) => obj'[b].x = -121
              /\ (spreadX = 50 /\ obj[b].x = 69 /\ obj[b].vx = 10) => obj'[b].x = -79
              /\ ix > BoundX => obj'[b].x = -ix]_vars

\* C10, amended: with spreadX = 10 an instance integrated to 10.5 stays at
\* 10.5 and one integrated to 12.1 ends the tick at -12; with bound 7 the
\* instance at 6.9 with vx = 1 ends the tick at -7.  In general the tick ends
\* at minus the bound whatever the overshoot, so never at minus the
\* integrated coordinate.
C10_BoundExamples ==
  [][Ticked =>
       \A b \in Range(beans) : obj[b].scale > 0 =>
          LET ix == obj[b].x + obj[b].vx
          IN  /\ (spreadX = 100 /\ ix = 105) => obj'[b].x = 105
              /\ (spreadX = 100 /\ ix = 121) => obj'[b].x = -120
              /\ (spreadX = 50 /\ obj[b].x = 69 /\ obj[b].vx = 10) => obj'[b].x = -70
              /\ ix > BoundX => (obj'[b].x = -BoundX /\ obj'[b].x # -ix)]_vars

\* after the first tick with spreadX = 10: the instance that was integrated
\* to 12.1 is at -12 and the one integrated to 10.5 is at 10.5
C10_Witness ==
  /\ cmykFrames = 1
  /\ spreadX = 100
  /\ \E a, b \in Range(beans) :
        /\ obj[a].scale > 0 /\ obj[a].vx = 1 /\ obj[a].x = -120
        /\ obj[b].scale > 0 /\ obj[b].vx = 0 /\ obj[b].x = 105

\* C11: immediately after a tick every instance the wrap was applied to (every
\* instance that was visible in that tick) lies within the bounds computed
\* from the spread of that tick, wherever spawns with another width, resizes
\* or repositionings had left it.
C11_WithinBoundsAfterTick ==
  [][Ticked =>
       \A b \in Range(beans) : obj[b].scale > 0 =>
          /\ Inside(obj'[b].x, BoundX)
          /\ Inside(obj'[b].y, BoundY)]_vars

\* after a resize to 4:3 (spreadX = 9.6) a tick has brought a visible
\* instance, spawned near x = 12, to the left bound -11.6
C11_Witness ==
  /\ cmykFrames > 0
  /\ aspect = <<4, 3>>
  /\ spreadX = 96
  /\ \E b \in Range(beans) :
        obj[b].scale > 0 /\ obj[b].vx = 1 /\ obj[b].x = -116

\* ------------------------------------------------- respawn and rebuild, SpawnSpec
\* The "Bean Count" slider of the panel writes CONFIG.beanCount while it is
\* dragged; resetBeans runs when it is released (onFinishChange).
BeanCounts == 1..MainBeans

SetBeanCount ==
  \E n \in BeanCounts :
     /\ beanCount' = n
     /\ UNCHANGED <<singleBeanMode, cmykEnabled, paused, spreadX, spreadY,
                    cmykPassEnabled, cmykFrames, isTransitioning, heroBean, beans,
                    obj, camera, aspect, anims, bodySingle, scene, beanGeometry,
                    geometry, geo, frag, post, boot, isDragging, previousMousePosition, bg, dbg, debounce>>

\* a rebuild that leaves the instances on the geometry they had
KeptGeometry(bs, held, g) == held

\* beans.forEach(bean => { bean.geometry = beanGeometry; })
Swapped(bs, held, g) == [b \in BeanIds |-> IF b \in Range(bs) THEN g ELSE held[b]]

\* rebuildGeometry: dispose of the shared geometry, generate a new one, hand
\* it to every live bean
rebuildGeometry ==
  /\ beanGeometry < FirstGeometry + MaxRebuilds
  /\ beanGeometry' = beanGeometry + 1
  /\ geometry' = Swapped(beans, geometry, beanGeometry + 1)
  /\ UNCHANGED <<beanCount, singleBeanMode, cmykEnabled, paused, spreadX, spreadY,
                 cmykPassEnabled, cmykFrames, isTransitioning, heroBean, beans,
                 obj, camera, aspect, anims, bodySingle, scene, geo, frag, post, boot, isDragging, previousMousePosition, bg, dbg, debounce>>

NextSpawn ==
  \/ SetBeanCount
  \/ ClickReset
  \/ rebuildGeometry
  \/ animate
  \/ GsapTick

SpawnSpec == Init /\ [][NextSpawn]_vars

\* the collection as a respawn must leave it: beanCount distinct instances,
\* each of them new (hidden, on the current geometry, its entrance tween not
\* yet started) and a child of the scene, and nothing else in the scene
Respawned ==
  /\ Len(beans) = beanCount
  /\ Cardinality(Range(beans)) = beanCount
  /\ scene = Range(beans)
  /\ \A b \in Range(beans) :
        /\ obj[b].scale = 0
        /\ geometry[b] = beanGeometry
        /\ \E i \in 1..Len(anims) :
              /\ ~IsTimeline(anims[i])
              /\ anims[i].age <= 0
              /\ anims[i].kids[1].target = b

\* C12: the initial createBeans and every resetBeans leave exactly
\* CONFIG.beanCount instances in the collection, all of them new and in the
\* scene, none of the population before; a reset is one step, so every frame
\* (animate, the GSAP ticker) sees the collection whole and the scene holding
\* exactly the collection.
C12_RespawnFillsCollection ==
  /\ Respawned
  /\ [][/\ resetBeans => Respawned'
        /\ scene' = Range(beans')
        /\ beans' # beans => Respawned']_vars

\* a reset after the slider had lowered the count: one new instance where
\* there were two
C12_Witness ==
  /\ MainBeans >= 2
  /\ beanCount = 1
  /\ Respawned
  /\ obj[2] = Blank
  /\ cmykFrames > 0

\* the instances some still-scheduled tween of `prop` targets
TargetsOf(as, prop) ==
  UNION {{as[i].kids[j].target : j \in {k \in 1..Len(as[i].kids) : as[i].kids[k].prop = prop}}
           : i \in 1..Len(as)}

\* C13: when resetBeans returns, no still-scheduled entrance tween or
\* transition tween, on scale or on rotation, targets an instance that the
\* reset has removed.
C13_NoTrackOnRemoved ==
  [][resetBeans =>
       /\ TargetsOf(anims', "scale") \subseteq Range(beans')
       /\ TargetsOf(anims', "rotation") \subseteq Range(beans')]_vars

\* a reset has run while focus was being entered: the hero of the removed
\* population is in no collection and no scene, and the rotation tween of the
\* transition timeline is still writing into it
C13_Witness ==
  /\ heroBean = StaleId
  /\ StaleId \notin Range(beans) \cup scene
  /\ \E i \in 1..Len(anims) :
        /\ IsTimeline(anims[i])
        /\ \E j \in 1..Len(anims[i].kids) :
              /\ anims[i].kids[j].target = StaleId
              /\ anims[i].kids[j].prop = "rotation"
              /\ anims[i].kids[j].started
        /\ \A j \in 1..Len(anims[i].kids) : anims[i].kids[j].prop # "scale"
  /\ obj[StaleId].rot # <<1, 0, 7>>

\* C14: rebuildGeometry hands the newly generated geometry to every live
\* instance and leaves the transforms, velocities and target scales of the
\* instances, the collection and the count as they were.
C14_RebuildSwapsGeometry ==
  [][rebuildGeometry =>
       /\ beanGeometry' # beanGeometry
       /\ \A b \in Range(beans) : geometry'[b] = beanGeometry'
       /\ obj' = obj
       /\ beans' = beans
       /\ scene' = scene
       /\ beanCount' = beanCount
       /\ anims' = anims]_vars

\* after a rebuild, with the entrance animation under way: every live
\* instance is on the second geometry and visible
C14_Witness ==
  /\ beanGeometry = FirstGeometry + 1
  /\ \A b \in Range(beans) : geometry[b] = beanGeometry /\ obj[b].scale > 0
  /\ \E i \in 1..Len(anims) : anims[i].age > 0

\* ------------------------------------------------ geometry generators, GeometrySpec
\* The module state before init() has spawned anything (the declarations of
\* CONFIG and of the globals).
BeforeSpawn ==
  /\ beanCount = MainBeans
  /\ singleBeanMode = FALSE
  /\ cmykEnabled = TRUE
  /\ paused = FALSE
  /\ spreadX = DefaultSpreadX
  /\ spreadY = DefaultSpreadY
  /\ cmykPassEnabled = TRUE
  /\ cmykFrames = 0
  /\ isTransitioning = FALSE
  /\ heroBean = NoBean
  /\ beans = <<>>
  /\ obj = [b \in BeanIds |-> Blank]
  /\ camera = <<0, 0, CameraZ>>
  /\ aspect = <<BaseAspectNum, BaseAspectDen>>
  /\ anims = <<>>
  /\ bodySingle = FALSE
  /\ scene = {}
  /\ beanGeometry = NoGeometry
  /\ geometry = [b \in BeanIds |-> NoGeometry]

\* (i / segments) * 2 - 1, as the fraction <<numerator, denominator>>
Param(i, segments) == <<2 * i - segments, segments>>

\* The inner loop of the vertex pass from iu on, for the row iv: one
\* vertices.push(x, y, z) and one uvParams.push(u, v) per grid point.  A
\* position is named by its grid point; the coordinates are not followed.
RECURSIVE VertexRow(_, _, _, _)
VertexRow(iv, iu, segmentsU, segmentsV) ==
  IF iu > segmentsU THEN <<>>
  ELSE <<[position |-> <<iu, iv>>,
          uv |-> <<Param(iu, segmentsU), Param(iv, segmentsV)>>]>>
       \o VertexRow(iv, iu + 1, segmentsU, segmentsV)

\* a quad whose second row is found one vertex early
QuadShortRow(iv, iu, segmentsU) ==
  LET a == iv * (segmentsU + 1) + iu
      b == a + 1
      c == a + segmentsU
      d == c + 1
  IN  <<a, b, c, b, d, c>>

\* indices.push(a, b, c); indices.push(b, d, c);
Quad(iv, iu, segmentsU) ==
  LET a == iv * (segmentsU + 1) + iu
      b == a + 1
      c == a + (segmentsU + 1)
      d == c + 1
  IN  <<a, b, c, b, d, c>>

\* The inner loop of the index pass from iu on, for the row iv.
RECURSIVE IndexRow(_, _, _)
IndexRow(iv, iu, segmentsU) ==
  IF iu >= segmentsU THEN <<>>
  ELSE Quad(iv, iu, segmentsU) \o IndexRow(iv, iu + 1, segmentsU)

\* One iteration of the outer loop the generator fn is in: a row of vertices,
\* then (once iv has passed segmentsV) a row of quads, then the geometry is
\* returned.
GeneratorStep(fn) ==
  /\ geo.fn = fn
  /\ \/ /\ geo.phase = "vertices"
        /\ geo.iv <= geo.segmentsV
        /\ LET row == VertexRow(geo.iv, 0, geo.segmentsU, geo.segmentsV)
           IN  geo' = [geo EXCEPT
                  !.vertices = @ \o [k \in 1..Len(row) |-> row[k].position],
                  !.uvParams = @ \o [k \in 1..Len(row) |-> row[k].uv],
                  !.iv = IF geo.iv = geo.segmentsV THEN 0 ELSE @ + 1,
                  !.phase = IF geo.iv = geo.segmentsV THEN "indices" ELSE @]
     \/ /\ geo.phase = "indices"
        /\ geo.iv < geo.segmentsV
        /\ geo' = [geo EXCEPT
                  !.indices = @ \o IndexRow(geo.iv, 0, geo.segmentsU),
                  !.iv = @ + 1,
                  !.phase = IF geo.iv + 1 = geo.segmentsV THEN "returned" ELSE @]
  /\ UNCHANGED <<beanCount, singleBeanMode, cmykEnabled, paused, spreadX, spreadY,
                 cmykPassEnabled, cmykFrames, isTransitioning, heroBean, beans,
                 obj, camera, aspect, anims, bodySingle, scene, beanGeometry,
                 geometry, frag, post, boot, isDragging, previousMousePosition, bg, dbg, debounce>>

createBeanGeometryClassic == GeneratorStep("createBeanGeometryClassic")

createBeanGeometrySuperellipse == GeneratorStep("createBeanGeometrySuperellipse")

Generators == {"createBeanGeometryClassic", "createBeanGeometrySuperellipse"}

\* createBeanGeometry(config, params) has picked a generator by
\* config.geometryType and handed it params.segmentsU and params.segmentsV.
InitGeometry ==
  /\ BeforeSpawn
  /\ frag = Idle
  /\ post = Idle
  /\ boot = [Started EXCEPT !.pc = "init", !.frame = FALSE, !.listeners = {}]
  /\ isDragging = FALSE
  /\ previousMousePosition = <<0, 0>>
  /\ bg = Shown
  /\ dbg = SingleView
  /\ debounce = NoTimers
  /\ \E fn \in Generators, su \in 1..GridSegs, sv \in 1..GridSegs :
        geo = [fn |-> fn, segmentsU |-> su, segmentsV |-> sv, phase |-> "vertices",
               iv |-> 0, vertices |-> <<>>, uvParams |-> <<>>, indices |-> <<>>]

NextGeometry ==
  \/ createBeanGeometryClassic
  \/ createBeanGeometrySuperellipse

GeometrySpec == InitGeometry /\ [][NextGeometry]_vars

VertexCount == (geo.segmentsU + 1) * (geo.segmentsV + 1)

\* the six indices the generator emitted for the grid quad (iv, iu)
Emitted(iv, iu) ==
  LET q == iv * geo.segmentsU + iu
  IN  [k \in 1..6 |-> geo.indices[6 * q + k]]

\* C15: for either generator and segmentsU, segmentsV >= 3 the returned
\* geometry has (segmentsU+1)*(segmentsV+1) vertices, one (u,v) pair for each,
\* and segmentsU*segmentsV*2 triangles; the quad with corners a, b = a+1,
\* c = a+segmentsU+1, d = c+1 contributes (a,b,c) and (b,d,c); every index is
\* that of a vertex.
C15_GridCounts ==
  (geo.fn \in Generators /\ geo.phase = "returned"
     /\ geo.segmentsU >= 3 /\ geo.segmentsV >= 3) =>
    /\ Len(geo.vertices) = VertexCount
    /\ Len(geo.uvParams) = VertexCount
    /\ \A k \in 1..VertexCount :
          LET iu == geo.vertices[k][1]
              iv == geo.vertices[k][2]
          IN  /\ k - 1 = iv * (geo.segmentsU + 1) + iu
              /\ geo.uvParams[k] = <<Param(iu, geo.segmentsU), Param(iv, geo.segmentsV)>>
    /\ Len(geo.indices) = geo.segmentsU * geo.segmentsV * 2 * 3
    /\ \A k \in 1..Len(geo.indices) : geo.indices[k] \in 0..(VertexCount - 1)
    /\ \A iv \in 0..(geo.segmentsV - 1), iu \in 0..(geo.segmentsU - 1) :
          LET a == iv * (geo.segmentsU + 1) + iu
              c == a + geo.segmentsU + 1
          IN  Emitted(iv, iu) = <<a, a + 1, c, a + 1, c + 1, c>>

\* the superellipse generator has returned a 3 x 4 grid: 20 vertices,
\* 24 triangles, the last index naming the last but one row's end
C15_Witness ==
  /\ geo.fn = "createBeanGeometrySuperellipse"
  /\ geo.phase = "returned"
  /\ geo.segmentsU = 3 /\ geo.segmentsV = 4
  /\ Len(geo.vertices) = 20
  /\ Len(geo.indices) = 72
  /\ geo.indices[72] = 18

\* ------------------------------------------------ crease mask, FragSpec
\* Parametric coordinates, z and the crease uniforms are in thousandths.

\* a step that is still 0 on the edge
StepPastEdge(edge, x) == IF x <= edge THEN 0 ELSE 1

\* GLSL step(edge, x)
Step(edge, x) == IF x < edge THEN 0 ELSE 1

Abs(x) == IF x < 0 THEN -x ELSE x

Least(x, y) == IF x < y THEN x ELSE y

Most(x, y) == IF x < y THEN y ELSE x

\* The sign (-1, 0, 1) of
\*   dist = min(max(q.x, q.y), 0.0) + length(max(q, 0.0)) - creaseRadius
\* with q = p - size + creaseRadius and p = abs(vec2(u, v)); the square root is
\* avoided by comparing the squares of length(...) and creaseRadius - min(...),
\* neither of which is negative.
DistSign(u, v, creaseWidth, creaseLength, creaseRadius) ==
  LET qx == Abs(u) - creaseWidth + creaseRadius
      qy == Abs(v) - creaseLength + creaseRadius
      m == Least(Most(qx, qy), 0)
      len2 == Most(qx, 0) * Most(qx, 0) + Most(qy, 0) * Most(qy, 0)
      rest == creaseRadius - m
  IN  IF len2 < rest * rest THEN -1 ELSE IF len2 = rest * rest THEN 0 ELSE 1

\* creaseLine = 1.0 - step(0.0, dist); creaseLine *= step(0.0, vPosition.z);
CreaseLine(u, v, z, creaseWidth, creaseLength, creaseRadius) ==
  (1 - Step(0, DistSign(u, v, creaseWidth, creaseLength, creaseRadius))) * Step(0, z)

\* parametric coordinates of the fragments followed: the centre, far points,
\* and points at and next to the crease edge, on both sides of each axis
Around(edge, far) ==
  {0, far, -far} \cup {edge + k : k \in -CreaseNear..CreaseNear}
                 \cup {-(edge + k) : k \in -CreaseNear..CreaseNear}

\* The crease part of the fragment shader, run for one fragment of a bean
\* with the uniforms of its material.  Fragments do not depend on one another:
\* one is followed.
BeanShaderFragmentShader ==
  /\ frag = Idle
  /\ boot.frame
  /\ \E creaseWidth \in {30}, creaseLength \in {700}, creaseRadius \in {0, 5} :
     \E u \in Around(creaseWidth, 500), v \in Around(creaseLength, 1000),
        z \in {-1, 0, 1} :
        frag' = [fn |-> "BeanShaderFragmentShader", u |-> u, v |-> v, z |-> z,
                 creaseWidth |-> creaseWidth, creaseLength |-> creaseLength,
                 creaseRadius |-> creaseRadius,
                 creaseLine |-> CreaseLine(u, v, z, creaseWidth, creaseLength,
                                           creaseRadius)]
  /\ UNCHANGED <<beanCount, singleBeanMode, cmykEnabled, paused, spreadX, spreadY,
                 cmykPassEnabled, cmykFrames, isTransitioning, heroBean, beans,
                 obj, camera, aspect, anims, bodySingle, scene, beanGeometry,
                 geometry, geo, post, boot, isDragging, previousMousePosition, bg, dbg, debounce>>

NextFrag == BeanShaderFragmentShader

FragSpec == Init /\ [][NextFrag]_vars

\* The point (|u|, |v|) is in or on the rectangle of half-extents
\* (creaseWidth, creaseLength) with corners rounded by creaseRadius: it is
\* within creaseRadius of the rectangle shrunk by creaseRadius.
OnOrInsideRoundedRect(f) ==
  LET dx == Most(Abs(f.u) - (f.creaseWidth - f.creaseRadius), 0)
      dy == Most(Abs(f.v) - (f.creaseLength - f.creaseRadius), 0)
  IN  dx * dx + dy * dy <= f.creaseRadius * f.creaseRadius

InsideRoundedRect(f) ==
  LET dx == Abs(f.u) - (f.creaseWidth - f.creaseRadius)
      dy == Abs(f.v) - (f.creaseLength - f.creaseRadius)
  IN  /\ Abs(f.u) < f.creaseWidth
      /\ Abs(f.v) < f.creaseLength
      /\ (dx > 0 /\ dy > 0) => dx * dx + dy * dy < f.creaseRadius * f.creaseRadius

TAU == 12               \* const float TAU = 6.28318530718
AngleMagenta == 4       \* baseAngle + 2.094
AngleYellow == 8        \* baseAngle + 4.189

\* sin and cos of a multiple of a twelfth of a turn, in thousandths
Sin(a) ==
  <<0, 500, 866, 1000, 866, 500, 0, -500, -866, -1000, -866, -500>>[(a % TAU) + 1]

Cos(a) == Sin(a + 3)

\* GLSL mix(x, y, t), t in thousandths
Mix(x, y, t) == (x * (1000 - t) + y * t) \div 1000

\* a breathe that swings the offset twice as far
BreatheTwice(breatheEnabled, breatheIntensity, wave) ==
  10000 + 2 * breatheEnabled * breatheIntensity * wave

\* breathe = 1.0 + breatheEnabled * breatheIntensity * wave, in
\* ten-thousandths: the intensity is in tenths, the wave in thousandths
Breathe(breatheEnabled, breatheIntensity, wave) ==
  10000 + breatheEnabled * breatheIntensity * wave

\* an edge test that finds an edge everywhere
HasEdgeAlways(sum) == 1

\* hasEdge = step(0.001, cyanEdge + magentaEdge + yellowEdge)
HasEdge(sum) == Step(1, sum)

\* texture2D(tDiffuse, vUv + dir).a for a sample displaced by disp along the
\* axis of the frame.  disp is trig * offset * breathe, that is thousandths of
\* the screen times 1000 * 10000.  A uniform frame has one alpha everywhere; a
\* step frame is transparent on one side of frame.at and opaque from there on
\* (or the reverse).  The step lies inside the screen, so clamping the sample
\* coordinate to the edge of the texture changes no sample.
SampleAlpha(frame, x, disp) ==
  IF frame.kind = "uniform" THEN frame.alpha
  ELSE LET beyond == (x - frame.at) * 1000 * 10000 + disp >= 0
       IN  IF beyond = frame.rising THEN 1000 ELSE 0

\* the component of a direction along the axis of the frame
Along(frame, angle) == IF frame.axis = "y" THEN Sin(angle) ELSE Cos(angle)

\* The whole of main() for the pixel at x (along the axis of the frame), with
\* wavePhase and baseAngle standing for the values of
\*   waveCoord * breatheWaveFreq * TAU - time * breatheSpeed  and
\*   time * rotationSpeed.
Halo(frame, x, rgb, offset, breatheEnabled, breatheIntensity, wavePhase, baseAngle, multiplyBlend) ==
  LET center == SampleAlpha(frame, x, 0)
      wave == Sin(wavePhase)
      breathe == Breathe(breatheEnabled, breatheIntensity, wave)
      animOffset == offset * breathe
      cr == SampleAlpha(frame, x, Along(frame, baseAngle) * animOffset)
      cm == SampleAlpha(frame, x, Along(frame, baseAngle + AngleMagenta) * animOffset)
      cy == SampleAlpha(frame, x, Along(frame, baseAngle + AngleYellow) * animOffset)
      cyanEdge == Most(0, cr - center)
      magentaEdge == Most(0, cm - center)
      yellowEdge == Most(0, cy - center)
      hasEdge == HasEdge(cyanEdge + magentaEdge + yellowEdge)
      fringes == IF multiplyBlend
                 THEN <<(1000 - cyanEdge) * hasEdge, (1000 - magentaEdge) * hasEdge,
                        (1000 - yellowEdge) * hasEdge>>
                 ELSE <<magentaEdge + yellowEdge, cyanEdge + yellowEdge,
                        cyanEdge + magentaEdge>>
      fringeAlpha == Most(Most(cyanEdge, magentaEdge), yellowEdge)
  IN  [fn |-> "CMYKShaderFragmentShader", frame |-> frame, x |-> x,
       offset |-> offset, breatheEnabled |-> breatheEnabled,
       breatheIntensity |-> breatheIntensity, wavePhase |-> wavePhase,
       baseAngle |-> baseAngle, multiplyBlend |-> multiplyBlend,
       center |-> center,
       edges |-> <<cyanEdge, magentaEdge, yellowEdge>>,
       fringes |-> fringes,
       finalColor |-> [c \in 1..3 |-> Mix(fringes[c], rgb[c], center)],
       finalAlpha |-> Most(center, (fringeAlpha * 85) \div 100)]

\* the pixels followed: PostReach of them either side of the middle of the
\* screen, 0.005 apart
Pixels == {500 + 5 * k : k \in -PostReach..PostReach}

\* the frames handed to the pass: one alpha everywhere, or a hard step in the
\* middle of the screen across either axis, rising or falling
Frames ==
  [kind : {"uniform"}, alpha : {0, 400, 1000}]
    \cup [kind : {"step"}, at : {500}, axis : {"x", "y"}, rising : BOOLEAN]

\* The post-process pass, run for one pixel of the composited frame.  Pixels
\* do not depend on one another: one is followed.
CMYKShaderFragmentShader ==
  /\ post = Idle
  /\ boot.frame
  /\ cmykPassEnabled
  /\ \E frame \in Frames, x \in Pixels, rgb \in {<<0, 0, 0>>, <<600, 300, 100>>},
        offset \in {10, 15}, breatheEnabled \in {0, 1}, breatheIntensity \in {0, 5},
        wavePhase \in {0, 3, 9}, baseAngle \in 0..(TAU - 1), multiplyBlend \in BOOLEAN :
        post' = Halo(frame, x, rgb, offset, breatheEnabled, breatheIntensity,
                     wavePhase, baseAngle, multiplyBlend)
  /\ UNCHANGED <<beanCount, singleBeanMode, cmykEnabled, paused, spreadX, spreadY,
                 cmykPassEnabled, cmykFrames, isTransitioning, heroBean, beans,
                 obj, camera, aspect, anims, bodySingle, scene, beanGeometry,
                 geometry, geo, frag, boot, isDragging, previousMousePosition, bg, dbg, debounce>>

NextPost == CMYKShaderFragmentShader

PostSpec == Init /\ [][NextPost]_vars

\* C17: on a frame whose alpha is the same at every pixel, whatever the pixel,
\* the time and the blend mode, the three edge values are 0, the fringe colour
\* is (0,0,0) and the output alpha is the centre alpha.
C17_UniformAlphaNoFringe ==
  (post.fn = "CMYKShaderFragmentShader" /\ post.frame.kind = "uniform") =>
    /\ post.edges = <<0, 0, 0>>
    /\ post.fringes = <<0, 0, 0>>
    /\ post.center = post.frame.alpha
    /\ post.finalAlpha = post.center

\* a half-transparent uniform frame has gone through the subtractive blend
\* with the offset breathing at its widest and the directions turned
C17_Witness ==
  /\ post.fn = "CMYKShaderFragmentShader"
  /\ post.frame.kind = "uniform"
  /\ post.frame.alpha = 400
  /\ post.multiplyBlend
  /\ post.breatheEnabled = 1 /\ post.breatheIntensity = 5 /\ post.wavePhase = 3
  /\ post.baseAngle = 5
  /\ post.finalAlpha = 400

Fringed == \E c \in 1..3 : post.edges[c] > 0

StepDistance == Abs(post.x - post.frame.at)

\* C18 as stated: on a frame whose alpha is one hard step, a pixel has a
\* nonzero fringe only if it lies within offset of the step, for every time
\* and every configuration, breathing included.
C18_FringeWithinOffset ==
  (post.fn = "CMYKShaderFragmentShader" /\ post.frame.kind = "step" /\ Fringed) =>
    StepDistance <= post.offset

\* C18 amended: on a frame whose alpha is one hard step, a pixel has a nonzero
\* fringe only if it lies within offset * (1 + breatheEnabled *
\* breatheIntensity) of the step; that is within offset when the breathing is
\* off or its intensity is 0.
C18_FringeWithinBreathedOffset ==
  (post.fn = "CMYKShaderFragmentShader" /\ post.frame.kind = "step" /\ Fringed) =>
    10 * StepDistance <= post.offset * (10 + post.breatheEnabled * post.breatheIntensity)

\* a pixel 0.015 before a rising step is fringed, with offset 0.01 breathing
\* at intensity 0.5 on the crest of the wave
C18_Witness ==
  /\ post.fn = "CMYKShaderFragmentShader"
  /\ post.frame.kind = "step" /\ post.frame.rising
  /\ post.offset = 10 /\ post.breatheEnabled = 1 /\ post.breatheIntensity = 5
  /\ post.wavePhase = 3
  /\ post.x = post.frame.at - 15
  /\ Fringed

\* ------------------------------------------------ leaving focus, ExitSpec
\* What Math.random() gives is in thousandths.  In this specification
\* velocities are in 1e-8 world units per frame and spins in 1e-6 radians per
\* frame, the resolution at which the products below are whole; the aggregate
\* tick is not part of it.
DriftSpeed == 50        \* CONFIG.driftSpeed = 0.5, in hundredths
RotationSpeed == 3      \* CONFIG.rotationSpeed = 3
DepthMin == -50         \* CONFIG.depthMin = -5
DepthMax == 20          \* CONFIG.depthMax = 2

\* Math.random(): 0 <= r < 1, followed at its ends and in the middle
Randoms == {0, 500, 999}

\* the ends alone, for the x and z of the other instances (their y is
\* followed at its upper end)
Corners == {0, 999}

\* CONFIG.scaleMin + Math.random() * (CONFIG.scaleMax - CONFIG.scaleMin)
RandomScale(r) == ScaleMin + (r * (ScaleMax - ScaleMin)) \div 1000

\* (Math.random() - 0.5) * CONFIG.driftSpeed * 0.015
RandomDrift(r) == (r - 500) * DriftSpeed * 15

\* (Math.random() - 0.5) * CONFIG.rotationSpeed * 0.008
RandomSpin(r) == (r - 500) * RotationSpeed * 8

\* (Math.random() - 0.5) * spread * 2
RandomSpread(r, spread) == ((r - 500) * spread * 2) \div 1000

\* CONFIG.depthMin + Math.random() * (CONFIG.depthMax - CONFIG.depthMin)
RandomDepth(r) == DepthMin + (r * (DepthMax - DepthMin)) \div 1000

\* vx, vy and the three spins; each is a call of its own in the code, the
\* spins are followed for the draws of vx and vy
RandomVels ==
  {<<RandomDrift(rx), RandomDrift(ry),
     <<RandomSpin(rx), RandomSpin(ry), RandomSpin(999 - rx)>>>> :
     rx \in Randoms, ry \in Randoms}

\* an instance as createBeans spawned it from the draws r (position) and k
\* (target scale, velocities), at the given scale
Spawned(r, k, scale) ==
  [x |-> RandomSpread(r, DefaultSpreadX), y |-> RandomSpread(k, DefaultSpreadY),
   z |-> RandomDepth(r), rot |-> <<1, 0, 7>>, scale |-> scale,
   targetScale |-> RandomScale(k), vx |-> RandomDrift(k), vy |-> RandomDrift(r),
   vr |-> <<RandomSpin(r), RandomSpin(k), RandomSpin(r)>>]

\* Focused, as a completed entry leaves it: the hero at scale 1 and rotation
\* (0,0,0) with the camera in front of it, the halo off.  Either the hero is
\* one of the instances and the others have been popped away, or the field was
\* reset during the entry: then the hero is the removed instance and the
\* instances of the respawn have been revealed.
InitExit ==
  \E hero \in (1..ExitBeans) \cup {StaleId}, r \in Corners :
    LET live == 1..ExitBeans
        respawned == hero = StaleId
        o == [b \in BeanIds |->
                IF b = hero
                  THEN [Spawned(r, 999 - r, FullScale) EXCEPT !.rot = <<0, 0, 0>>]
                ELSE IF b \in live
                  THEN Spawned(999 - r, r,
                               IF respawned THEN RandomScale(r) ELSE 0)
                ELSE Blank]
    IN  /\ beanCount = ExitBeans
        /\ singleBeanMode = TRUE
        /\ cmykEnabled = FALSE
        /\ paused = FALSE
        /\ spreadX = DefaultSpreadX
        /\ spreadY = DefaultSpreadY
        /\ cmykPassEnabled = FALSE
        /\ cmykFrames = 0
        /\ isTransitioning = FALSE
        /\ heroBean = hero
        /\ beans = [i \in live |-> i]
        /\ obj = o
        /\ camera = <<o[hero].x, o[hero].y, o[hero].z + HeroCameraOffset>>
        /\ aspect = <<BaseAspectNum, BaseAspectDen>>
        /\ anims = <<>>
        /\ bodySingle = TRUE
        /\ scene = live
        /\ beanGeometry = FirstGeometry
        /\ geometry = Meshed(live \cup {hero}, FirstGeometry)
        /\ geo = Idle
        /\ frag = Idle
        /\ post = Idle
        /\ boot = Started
        /\ isDragging = FALSE
        /\ previousMousePosition = <<0, 0>>
        /\ bg = Shown
        /\ dbg = SingleView
        /\ debounce = NoTimers

\* A click that unchecks "Single Bean Mode" while no transition runs:
\* toggleSingleBeanMode(false) past its early return.
ClickLeaveFocus ==
  /\ singleBeanMode
  /\ ~Rejected
  /\ singleBeanMode' = FALSE
  /\ isTransitioning' = TRUE
  /\ ExitFocus({RandomScale(r) : r \in Randoms}, RandomVels,
               {RandomSpread(r, spreadX) : r \in Corners},
               {RandomSpread(r, spreadY) : r \in {999}},
               {RandomDepth(r) : r \in Corners})

NextExit ==
  \/ ClickLeaveFocus
  \/ GsapTick

ExitSpec == InitExit /\ [][NextExit]_vars

\* a step from Focused to ExitingFocus
LeftFocus == singleBeanMode /\ ~isTransitioning /\ ~singleBeanMode' /\ isTransitioning'

Within(p, low, high) == low <= p /\ p <= high

\* C19: on Focused -> ExitingFocus the hero stays the same instance, gets a
\* target scale in [scaleMin, scaleMax] and velocities in the spawn ranges, and
\* its position is not written; every other instance of the collection is put
\* inside the spawn box.
C19_HeroKeptOthersRespawned ==
  [][LeftFocus =>
       /\ heroBean # NoBean
       /\ heroBean' = heroBean
       /\ beans' = beans
       /\ LET was == obj[heroBean]
              now == obj'[heroBean]
          IN  /\ Within(now.targetScale, ScaleMin, ScaleMax)
              /\ Within(2 * now.vx, -DriftSpeed * 15 * 1000, DriftSpeed * 15 * 1000)
              /\ Within(2 * now.vy, -DriftSpeed * 15 * 1000, DriftSpeed * 15 * 1000)
              /\ \A c \in 1..3 :
                   Within(2 * now.vr[c], -RotationSpeed * 8 * 1000, RotationSpeed * 8 * 1000)
              /\ <<now.x, now.y, now.z>> = <<was.x, was.y, was.z>>
       /\ \A b \in Range(beans) \ {heroBean} :
            /\ Within(obj'[b].x, -spreadX, spreadX)
            /\ Within(obj'[b].y, -spreadY, spreadY)
            /\ Within(obj'[b].z, DepthMin, DepthMax)]_vars

\* focus has been left: the hero, still where it was in front of the camera's
\* old place, has the largest target scale and a leftward drift, and the other
\* instance has been moved to the far corner of the spawn box
C19_Witness ==
  /\ ~singleBeanMode /\ isTransitioning
  /\ heroBean = 1
  /\ obj[1].targetScale = RandomScale(999) /\ obj[1].vx = RandomDrift(0)
  /\ obj[1].x = RandomSpread(0, DefaultSpreadX)
  /\ camera = <<obj[1].x, obj[1].y, obj[1].z + HeroCameraOffset>>
  /\ obj[2].x = RandomSpread(999, DefaultSpreadX) /\ obj[2].z = RandomDepth(999)

\* ------------------------------------------------ startup, StartSpec
\* The module has been loaded and init() is about to be called, in a window
\* with or without WebGL and a document with or without the canvas.
InitStart ==
  /\ BeforeSpawn
  /\ geo = Idle
  /\ frag = Idle
  /\ post = Idle
  /\ \E webgl \in BOOLEAN, canvas \in BOOLEAN :
        boot = [pc |-> "loaded", webgl |-> webgl, canvas |-> canvas, frame |-> FALSE,
                listeners |-> {}]
  /\ isDragging = FALSE
  /\ previousMousePosition = <<0, 0>>
  /\ bg = Shown
  /\ dbg = SingleView
  /\ debounce = NoTimers

\* an init that goes on without looking for the canvas
ReturnsWithoutWebGL(b) == ~b.webgl

\* if (!window.WebGLRenderingContext) return;  if (!canvas) return;
ReturnsEarly(b) == ~b.webgl \/ ~b.canvas

\* init(): the two early returns; else the scene, camera, renderer, composer
\* and pass are made, the geometry is built, createBeans() spawns the field,
\* animate() schedules the frame callback and runs the first frame, and the
\* drag and resize listeners are registered.
init ==
  /\ boot.pc = "loaded"
  /\ IF ReturnsEarly(boot)
       THEN /\ boot' = [boot EXCEPT !.pc = "returned"]
            /\ UNCHANGED <<beanCount, singleBeanMode, cmykEnabled, paused, spreadX,
                           spreadY, cmykPassEnabled, cmykFrames, isTransitioning,
                           heroBean, beans, obj, camera, aspect, anims, bodySingle,
                           scene, beanGeometry, geometry, geo, frag, post, isDragging, previousMousePosition, bg, dbg, debounce>>
       ELSE \E draw \in [1..beanCount -> SpawnChoices], shuffle \in Perms(1..beanCount) :
              LET r == createBeans(obj, beans, anims, [i \in 1..beanCount |-> i],
                                   draw, shuffle)
              IN  /\ camera' = <<0, 0, CameraZ>>
                  /\ aspect' = <<BaseAspectNum, BaseAspectDen>>
                  /\ cmykPassEnabled' = cmykEnabled
                  /\ beanGeometry' = FirstGeometry
                  /\ beans' = r.beans
                  /\ anims' = r.anims
                  /\ scene' = scene \cup Range(r.beans)
                  /\ geometry' = Meshed(Range(r.beans), FirstGeometry)
                  /\ cmykFrames' = cmykFrames + 1
                  /\ obj' = IF ~singleBeanMode /\ ~paused
                              THEN [b \in BeanIds |->
                                      IF b \in Range(r.beans)
                                        THEN Drift(r.obj, b, spreadX, spreadY)
                                        ELSE r.obj[b]]
                              ELSE r.obj
                  /\ boot' = [boot EXCEPT !.pc = "started", !.frame = TRUE,
                                          !.listeners = Listeners]
                  /\ UNCHANGED <<beanCount, singleBeanMode, cmykEnabled, paused,
                                 spreadX, spreadY, isTransitioning, heroBean,
                                 bodySingle, geo, frag, post, isDragging, previousMousePosition, bg, dbg, debounce>>

NextStart ==
  \/ init
  \/ animate
  \/ ClickPaused
  \/ performResize
  \/ GsapTick

StartSpec == InitStart /\ [][NextStart]_vars

\* C20: when the window has no rendering context or the document no canvas,
\* startup does nothing: at no time is an instance spawned or in the scene, an
\* animation pending, the frame callback scheduled, a listener registered or
\* a frame run.
C20_NoOpStartup ==
  (~boot.webgl \/ ~boot.canvas) =>
    /\ boot.pc \in {"loaded", "returned"}
    /\ beans = <<>>
    /\ scene = {}
    /\ anims = <<>>
    /\ ~boot.frame
    /\ boot.listeners = {}
    /\ cmykFrames = 0
    /\ beanGeometry = NoGeometry

\* init has returned in a window with WebGL whose document has no canvas
C20_Witness == boot.pc = "returned" /\ boot.webgl /\ ~boot.canvas

\* C21: whenever the machine is Focused the hero has scale 1 and rotation
\* (0,0,0) and every other live instance has scale 0, however the enter-focus
\* request interleaves with the entrance tweens of the last spawn.
C21_FocusedShowsOnlyHero ==
  Mode = "Focused" =>
    /\ heroBean \in Range(beans)
    /\ obj[heroBean].scale = FullScale
    /\ obj[heroBean].rot = <<0, 0, 0>>
    /\ \A b \in Range(beans) \ {heroBean} : obj[b].scale = 0

\* the machine is Focused, every animation has ended, and an instance other
\* than the hero stands at its entrance target scale
C21_Witness ==
  /\ Mode = "Focused"
  /\ anims = <<>>
  /\ heroBean \in Range(beans)
  /\ obj[heroBean].scale = FullScale
  /\ \E b \in Range(beans) \ {heroBean} :
        obj[b].scale = obj[b].targetScale /\ obj[b].scale > 0

\* ------------------------------------------- frames during focus, FreezeSpec
NextFreeze ==
  \/ animate
  \/ ClickPaused
  \/ ClickSingleBeanMode
  \/ GsapTick

\* a revealed field at the default width
InitFreeze == InitTick /\ spreadX = DefaultSpreadX /\ anims = <<>>

FreezeSpec == InitFreeze /\ [][NextFreeze]_vars

\* a frame has run
Framed == cmykFrames' # cmykFrames

\* C22: a frame that runs while singleBeanMode or paused is set changes no
\* instance's position or rotation, and every frame, whatever the mode,
\* advances the halo time by one step of 0.016.
C22_FrozenInFocusAndPause ==
  [][Framed =>
       /\ cmykFrames' = cmykFrames + 1
       /\ (singleBeanMode \/ paused) =>
            \A b \in Range(beans) :
               /\ obj'[b].x = obj[b].x
               /\ obj'[b].y = obj[b].y
               /\ obj'[b].z = obj[b].z
               /\ obj'[b].rot = obj[b].rot]_vars

\* every frame so far has run, the machine is Focused and not paused, and a
\* visible instance with a velocity and a spin is in the field
C22_Witness ==
  /\ cmykFrames = MaxFrames
  /\ Mode = "Focused"
  /\ ~paused
  /\ \E b \in Range(beans) :
        obj[b].scale > 0 /\ obj[b].vx # 0 /\ obj[b].vr # <<0, 0, 0>>

\* C23: whenever heroBean is non-null it refers to an instance that is in the
\* live collection and in the scene, after any sequence of mode toggles,
\* transition completions and resets.
C23_HeroIsLive ==
  heroBean # NoBean => heroBean \in Range(beans) /\ heroBean \in scene

\* a reset has replaced the population while the machine is Focused on a hero
\* of the population it removed
C23_Witness ==
  /\ Mode = "Focused"
  /\ heroBean = StaleId
  /\ beans # <<>>
  /\ StaleId \notin Range(beans)
  /\ StaleId \notin scene

\* C24: the hero chosen on entering focus is a visible instance (scale > 0),
\* also when no instance is visible at the request: no hidden instance is
\* ever selected.
C24_HeroIsVisible ==
  [][Entered => heroBean' \in Range(beans) /\ obj[heroBean'].scale > 0]_vars

\* focus has been requested on a field whose reveals had not started: the
\* hero is the first instance of the collection and every instance is hidden
C24_Witness ==
  /\ Mode = "EnteringFocus"
  /\ heroBean = beans[1]
  /\ \A b \in Range(beans) : obj[b].scale = 0

\* ------------------------------------------------- drag to rotate, DragSpec
\* const rotationSpeed = 0.005 rad per pixel; pointer coordinates are counted
\* in steps of 50 pi pixels, so one step turns the hero by a quarter of pi
rotationSpeed == 1

\* the positions a pointer event can report
Pointers == {<<0, 0>>, <<1, 0>>, <<0, 1>>}

\* the farthest a component of the hero's rotation is dragged
DragReach == 2

\* if (!CONFIG.singleBeanMode || isTransitioning || !heroBean) return;
StartIgnored == ~singleBeanMode \/ isTransitioning \/ heroBean = NoBean

\* mousedown / touchstart on the canvas
onDragStart ==
  /\ "mousedown" \in boot.listeners
  /\ \E e \in Pointers :
       IF StartIgnored
         THEN UNCHANGED <<isDragging, previousMousePosition, bg, dbg, debounce>>
         ELSE /\ isDragging' = TRUE
              /\ previousMousePosition' = e
  /\ UNCHANGED <<beanCount, singleBeanMode, cmykEnabled, paused, spreadX, spreadY,
                 cmykPassEnabled, cmykFrames, isTransitioning, heroBean, beans,
                 obj, camera, aspect, anims, bodySingle,
                 scene, beanGeometry, geometry, geo, frag, post, boot, bg, dbg, debounce>>

\* the hero's rotation after a move to pointer position e
Dragged(rot, e) ==
  <<rot[1] + (e[2] - previousMousePosition[2]) * rotationSpeed,
    rot[2] + (e[1] - previousMousePosition[1]) * rotationSpeed,
    rot[3]>>

\* mousemove / touchmove on the canvas
onDragMove ==
  /\ "mousemove" \in boot.listeners
  /\ \E e \in Pointers :
       IF ~isDragging \/ heroBean = NoBean
         THEN UNCHANGED <<obj, previousMousePosition, bg, dbg, debounce>>
         ELSE /\ \A k \in 1..2 : /\ Dragged(obj[heroBean].rot, e)[k] <= DragReach
                                 /\ Dragged(obj[heroBean].rot, e)[k] >= -DragReach
              /\ obj' = [obj EXCEPT ![heroBean].rot = Dragged(@, e)]
              /\ previousMousePosition' = e
  /\ UNCHANGED <<beanCount, singleBeanMode, cmykEnabled, paused, spreadX, spreadY,
                 cmykPassEnabled, cmykFrames, isTransitioning, heroBean, beans,
                 camera, aspect, anims, bodySingle, isDragging,
                 scene, beanGeometry, geometry, geo, frag, post, boot, bg, dbg, debounce>>

\* mouseup / mouseleave / touchend on the canvas
onDragEnd ==
  /\ "mouseup" \in boot.listeners
  /\ isDragging' = FALSE
  /\ UNCHANGED <<beanCount, singleBeanMode, cmykEnabled, paused, spreadX, spreadY,
                 cmykPassEnabled, cmykFrames, isTransitioning, heroBean, beans,
                 obj, camera, aspect, anims, bodySingle, previousMousePosition,
                 scene, beanGeometry, geometry, geo, frag, post, boot, bg, dbg, debounce>>

NextDrag ==
  \/ ClickSingleBeanMode
  \/ GsapTick
  \/ onDragStart
  \/ onDragMove
  \/ onDragEnd

DragSpec == Init /\ [][NextDrag]_vars

\* C25: a drag-start is ignored unless the machine is Focused, and no
\* drag-move changes any instance's rotation while the machine is in
\* Aggregate, EnteringFocus or ExitingFocus, also when the drag started in
\* Focused and goes on after a mode toggle.
C25_DragOnlyWhileFocused ==
  [][/\ (~isDragging /\ isDragging') => Mode = "Focused"
     /\ (onDragMove /\ Mode # "Focused") =>
           \A b \in BeanIds : obj'[b].rot = obj[b].rot]_vars

\* a drag that began in Focused has gone on into the exit transition and has
\* turned the hero there
C25_Witness ==
  /\ Mode = "ExitingFocus"
  /\ isDragging
  /\ heroBean # NoBean
  /\ obj[heroBean].rot[1] # 0

\* C26: document.body carries the class 'single-bean-mode' exactly when the
\* machine is Focused; it is absent in Aggregate, EnteringFocus and
\* ExitingFocus.
C26_BodyClassIffFocused == bodySingle <=> Mode = "Focused"

\* the exit transition has begun: the class that Focused carried is gone
\* while the hero of the focus is still referenced
C26_Witness ==
  /\ Mode = "ExitingFocus"
  /\ ~bodySingle
  /\ heroBean # NoBean
  /\ \E i \in 1..Len(anims) : anims[i].kind = "multi"

\* C27: after any sequence of spawns, resets and geometry rebuilds every live
\* instance's geometry is the most recently generated beanGeometry; no live
\* instance is on an earlier, disposed one.
C27_LiveOnCurrentGeometry ==
  \A b \in Range(beans) : geometry[b] = beanGeometry

\* the geometry has been rebuilt as often as the bound allows and a reset has
\* spawned a population of another size, whose reveals have not begun: its
\* one instance is on the last geometry
C27_Witness ==
  /\ beanGeometry = FirstGeometry + MaxRebuilds
  /\ Len(beans) = 1
  /\ MainBeans > 1
  /\ obj[beans[1]].scale = 0
  /\ geometry[beans[1]] = beanGeometry

\* --------------------------------------- the background page, BackgroundSpec
\* The page has the canvas and a rendering context (the early returns of
\* toggleCanvas3D and createScene are not taken).
\* the most destroy timers that are pending together
MaxTimers == 2

\* the id requestAnimationFrame returns: one no pending request has
FreshRequest(b) ==
  CHOOSE id \in 1..(Cardinality(b.requests) + 2) :
    /\ id \notin b.requests \cup {b.animationId}
    /\ \A other \in 1..(id - 1) : other \in b.requests \cup {b.animationId}

\* animate(): animationId = requestAnimationFrame(animate), called directly
Requested(b) ==
  [b EXCEPT !.animationId = FreshRequest(b), !.requests = @ \cup {FreshRequest(b)}]

\* updateParallax(): the camera follows the scroll position; isScrolling is
\* set and the 150 ms timeout that clears it is restarted
Scrolled(b, progress) ==
  [b EXCEPT !.isScrolling = TRUE, !.scrollTimeout = TRUE, !.scrollProgress = progress]

\* scrollY / maxScroll, clamped to [0, 1]: the top and the bottom of the page
ScrollEnds == {0, 1}

\* a createScene that does not look at isInitialized
createSceneAgain(b) ==
  [Requested(Scrolled(b, b.scrollProgress)) EXCEPT !.isInitialized = TRUE, !.frames = 0]

\* createScene(): if (isInitialized) return; else the scene, the composer and
\* a pass with fresh uniforms are built and animate() is called
createScene(b) ==
  IF b.isInitialized THEN b
  ELSE [Requested(Scrolled(b, b.scrollProgress)) EXCEPT !.isInitialized = TRUE, !.frames = 0]

\* destroyScene(): if (!isInitialized) return; else the pending frame request
\* is cancelled and everything is disposed of
destroyScene(b) ==
  IF ~b.isInitialized THEN b
  ELSE [b EXCEPT !.requests = IF b.animationId # 0 THEN @ \ {b.animationId} ELSE @,
                 !.animationId = 0,
                 !.isInitialized = FALSE]

\* toggleCanvas3D(enabled): show the canvas and create the scene, or hide it
\* and start the 400 ms timer that destroys the scene
toggleCanvas3D(enabled) ==
  /\ enabled \/ bg.timers < MaxTimers
  /\ bg' = IF enabled
             THEN [createScene([bg EXCEPT !.canvas3DEnabled = TRUE]) EXCEPT !.opacity = 1]
             ELSE [bg EXCEPT !.canvas3DEnabled = FALSE, !.opacity = 0, !.timers = @ + 1]
  /\ UNCHANGED <<beanCount, singleBeanMode, cmykEnabled, paused, spreadX, spreadY,
                 cmykPassEnabled, cmykFrames, isTransitioning, heroBean, beans,
                 obj, camera, aspect, anims, bodySingle, scene, beanGeometry,
                 geometry, geo, frag, post, boot, isDragging,
                 previousMousePosition, dbg, debounce>>

\* the "3D Background" checkbox
ClickCanvas3D == \E enabled \in BOOLEAN : toggleCanvas3D(enabled)

\* the callback of a destroy timer: if (!CONFIG.canvas3DEnabled) destroyScene()
DestroyTimer ==
  /\ bg.timers > 0
  /\ bg' = IF ~bg.canvas3DEnabled
             THEN [destroyScene(bg) EXCEPT !.timers = @ - 1]
             ELSE [bg EXCEPT !.timers = @ - 1]
  /\ UNCHANGED <<beanCount, singleBeanMode, cmykEnabled, paused, spreadX, spreadY,
                 cmykPassEnabled, cmykFrames, isTransitioning, heroBean, beans,
                 obj, camera, aspect, anims, bodySingle, scene, beanGeometry,
                 geometry, geo, frag, post, boot, isDragging,
                 previousMousePosition, dbg, debounce>>

\* a requested frame of the background page: animate() requests the next
\* frame and, if the composer and the pass exist, advances the pass's time
backgroundAnimate ==
  /\ bg.frames < MaxFrames
  /\ \E id \in bg.requests :
       \E b \in {Requested([bg EXCEPT !.requests = @ \ {id}])} :
          bg' = IF b.isInitialized THEN [b EXCEPT !.frames = @ + 1] ELSE b
  /\ UNCHANGED <<beanCount, singleBeanMode, cmykEnabled, paused, spreadX, spreadY,
                 cmykPassEnabled, cmykFrames, isTransitioning, heroBean, beans,
                 obj, camera, aspect, anims, bodySingle, scene, beanGeometry,
                 geometry, geo, frag, post, boot, isDragging,
                 previousMousePosition, dbg, debounce>>

\* the scroll listener that createScene registers and destroyScene removes
updateParallax ==
  /\ bg.isInitialized
  /\ \E progress \in ScrollEnds : bg' = Scrolled(bg, progress)
  /\ UNCHANGED <<beanCount, singleBeanMode, cmykEnabled, paused, spreadX, spreadY,
                 cmykPassEnabled, cmykFrames, isTransitioning, heroBean, beans,
                 obj, camera, aspect, anims, bodySingle, scene, beanGeometry,
                 geometry, geo, frag, post, boot, isDragging,
                 previousMousePosition, dbg, debounce>>

\* the callback of scrollTimeout: isScrolling = false
ScrollTimeout ==
  /\ bg.scrollTimeout
  /\ bg' = [bg EXCEPT !.isScrolling = FALSE, !.scrollTimeout = FALSE]
  /\ UNCHANGED <<beanCount, singleBeanMode, cmykEnabled, paused, spreadX, spreadY,
                 cmykPassEnabled, cmykFrames, isTransitioning, heroBean, beans,
                 obj, camera, aspect, anims, bodySingle, scene, beanGeometry,
                 geometry, geo, frag, post, boot, isDragging,
                 previousMousePosition, dbg, debounce>>

NextBackground ==
  \/ ClickCanvas3D
  \/ updateParallax
  \/ ScrollTimeout
  \/ DestroyTimer
  \/ backgroundAnimate

BackgroundSpec == Init /\ [][NextBackground]_vars

\* C28: once no destroy timer is pending the scene is initialized exactly
\* when canvas3DEnabled is true; no step builds a second scene (a pass with
\* fresh uniforms) while one exists; and at most one frame request is
\* scheduled at any time.
C28_SceneFollowsToggle ==
  /\ [](bg.timers = 0 => (bg.isInitialized <=> bg.canvas3DEnabled))
  /\ [](Cardinality(bg.requests) <= 1)
  /\ [][(bg.isInitialized /\ bg'.isInitialized) => bg'.frames >= bg.frames]_vars

\* the box was unticked and ticked again before the timer fired, frames have
\* run, the timer has fired without destroying anything: the scene of the
\* start is still the one shown, on its one chain of frame requests
C28_Witness ==
  /\ bg.timers = 0
  /\ bg.canvas3DEnabled
  /\ bg.isInitialized
  /\ bg.frames = MaxFrames
  /\ bg.opacity = 1
  /\ bg.requests = {bg.animationId}

\* -------------------------------------------------- the debug viewer, DebugSpec
\* CONFIG.beanCount of the viewer, and the largest crowd that is modelled
DebugBeans == 2
MaxCrowd == 4

\* the durations of the viewer's two timelines: 1.4 s out, 1.5 s back
MultiDuration == 1400
SingleDuration == 1500

\* if (isTransitioning) return;
DebugRejected(d) == d.isTransitioning

\* transitionToMultiBean(): orbit controls off, halo on, CONFIG.beanCount
\* hidden instances created, the timeline started
DebugToMulti(d) ==
  [d EXCEPT !.controls = FALSE, !.cmykEnabled = TRUE,
            !.multiBeans = @ + DebugBeans, !.tl = "multi", !.age = 0]

\* transitionToSingleBean(): halo off, the timeline started
DebugToSingle(d) == [d EXCEPT !.cmykEnabled = FALSE, !.tl = "single", !.age = 0]

\* toggleMultiBeanMode(enabled)
toggleMultiBeanMode(d, enabled) ==
  IF DebugRejected(d) THEN d
  ELSE IF enabled THEN DebugToMulti([d EXCEPT !.isTransitioning = TRUE])
  ELSE DebugToSingle([d EXCEPT !.isTransitioning = TRUE])

\* the "Multi-Bean Mode" checkbox: lil-gui writes CONFIG.multiBeanMode and
\* calls onChange with the new value
ClickMultiBeanMode ==
  /\ \E d \in {[dbg EXCEPT !.multiBeanMode = ~@]} :
        /\ dbg' = toggleMultiBeanMode(d, d.multiBeanMode)
        /\ dbg'.multiBeans <= MaxCrowd
  /\ UNCHANGED <<beanCount, singleBeanMode, cmykEnabled, paused, spreadX, spreadY,
                 cmykPassEnabled, cmykFrames, isTransitioning, heroBean, beans,
                 obj, camera, aspect, anims, bodySingle, scene, beanGeometry,
                 geometry, geo, frag, post, boot, isDragging,
                 previousMousePosition, bg, debounce>>

\* onComplete of the viewer's timelines: the one back to the single bean
\* clears the crowd and gives the orbit controls back
DebugCompleted(d) ==
  IF d.tl = "single"
    THEN [d EXCEPT !.multiBeans = 0, !.controls = TRUE, !.isTransitioning = FALSE,
                   !.view = "single", !.tl = "none", !.age = 0]
    ELSE [d EXCEPT !.isTransitioning = FALSE, !.view = "multi", !.tl = "none", !.age = 0]

\* a tick of GSAP in the viewer
DebugGsapTick ==
  /\ dbg.tl # "none"
  /\ \E d \in {[dbg EXCEPT !.age = @ + FrameMs]} :
        dbg' = IF d.age >= (IF d.tl = "multi" THEN MultiDuration ELSE SingleDuration)
                 THEN DebugCompleted(d)
                 ELSE d
  /\ UNCHANGED <<beanCount, singleBeanMode, cmykEnabled, paused, spreadX, spreadY,
                 cmykPassEnabled, cmykFrames, isTransitioning, heroBean, beans,
                 obj, camera, aspect, anims, bodySingle, scene, beanGeometry,
                 geometry, geo, frag, post, boot, isDragging,
                 previousMousePosition, bg, debounce>>

\* a frame of the viewer: the halo time advances, and the crowd drifts if
\* CONFIG.multiBeanMode is set
debugAnimate ==
  /\ dbg.frames < MaxFrames
  /\ dbg' = [dbg EXCEPT !.frames = @ + 1,
                        !.drifted = IF dbg.multiBeanMode THEN @ + 1 ELSE @]
  /\ UNCHANGED <<beanCount, singleBeanMode, cmykEnabled, paused, spreadX, spreadY,
                 cmykPassEnabled, cmykFrames, isTransitioning, heroBean, beans,
                 obj, camera, aspect, anims, bodySingle, scene, beanGeometry,
                 geometry, geo, frag, post, boot, isDragging,
                 previousMousePosition, bg, debounce>>

NextDebug ==
  \/ ClickMultiBeanMode
  \/ DebugGsapTick
  \/ debugAnimate

DebugSpec == Init /\ [][NextDebug]_vars

\* C29: in the debug viewer, whenever no transition is in flight,
\* CONFIG.multiBeanMode is true exactly when the last completed transition was
\* transitionToMultiBean, also after toggles made while a transition ran.
C29_FlagAgreesWithView ==
  ~dbg.isTransitioning => (dbg.multiBeanMode <=> dbg.view = "multi")

\* the box was ticked and, while the timeline ran, unticked: the timeline has
\* completed into the multi-bean view with the flag off, and a frame has run
\* in which the crowd did not drift
C29_Witness ==
  /\ ~dbg.isTransitioning
  /\ dbg.view = "multi"
  /\ dbg.multiBeans = DebugBeans
  /\ ~dbg.multiBeanMode
  /\ dbg.frames > dbg.drifted

\* ------------------------------------------------ debounced reset, DebounceSpec
\* setTimeout(resetBeans, 150)
DebounceMs == 150

\* the step in which the timers' clock advances, and the number of calls
DebounceStep == 50
MaxCalls == 3

Min(S) == CHOOSE x \in S : \A y \in S : x <= y

\* a debouncedReset that leaves the timer it replaces pending
NotCleared(pending, id) == pending

\* clearTimeout(id): the timeout with that id, if it is pending, is dropped
Cleared(pending, id) == {t \in pending : t.id # id}

\* debouncedReset(): clearTimeout(debounceTimer);
\* debounceTimer = setTimeout(resetBeans, 150)
debouncedReset ==
  /\ debounce.calls < MaxCalls
  /\ debounce' =
       [debounce EXCEPT
          !.debounceTimer = @ + 1,
          !.pending = Cleared(@, debounce.debounceTimer)
                        \cup {[id |-> debounce.debounceTimer + 1, left |-> DebounceMs]},
          !.since = 0,
          !.calls = @ + 1,
          !.bursts = IF debounce.pending = {} THEN @ + 1 ELSE @]
  /\ UNCHANGED <<beanCount, singleBeanMode, cmykEnabled, paused, spreadX, spreadY,
                 cmykPassEnabled, cmykFrames, isTransitioning, heroBean, beans,
                 obj, camera, aspect, anims, bodySingle, scene, beanGeometry,
                 geometry, geo, frag, post, boot, isDragging,
                 previousMousePosition, bg, dbg>>

\* time passes while a timeout is pending, up to the moment the first is due
DebounceWait ==
  /\ debounce.pending # {}
  /\ \A t \in debounce.pending : t.left > 0
  /\ \E d \in {Min({DebounceStep} \cup {t.left : t \in debounce.pending})} :
        debounce' =
          [debounce EXCEPT
             !.pending = {[t EXCEPT !.left = @ - d] : t \in debounce.pending},
             !.since = Min({@ + d, DebounceMs})]
  /\ UNCHANGED <<beanCount, singleBeanMode, cmykEnabled, paused, spreadX, spreadY,
                 cmykPassEnabled, cmykFrames, isTransitioning, heroBean, beans,
                 obj, camera, aspect, anims, bodySingle, scene, beanGeometry,
                 geometry, geo, frag, post, boot, isDragging,
                 previousMousePosition, bg, dbg>>

\* a timeout that is due runs its callback, resetBeans
DebounceFires ==
  /\ \E t \in debounce.pending :
        /\ t.left = 0
        /\ debounce' = [debounce EXCEPT !.pending = @ \ {t}, !.fired = @ + 1]
  /\ resetBeans

NextDebounce ==
  \/ debouncedReset
  \/ DebounceWait
  \/ DebounceFires
  \/ GsapTick

DebounceSpec == Init /\ [][NextDebounce]_vars

\* the clock advances and a due timeout runs
FairDebounceSpec == DebounceSpec /\ WF_vars(DebounceWait) /\ WF_vars(DebounceFires)

\* C30: at most one debounce timer is pending at any time; a series of
\* debouncedReset calls, each made while the timer of the one before is still
\* pending, causes exactly one resetBeans, which runs 150 ms after the last
\* call of the series; and the reset does come.
C30_DebounceCoalesces ==
  /\ [](Cardinality(debounce.pending) <= 1)
  /\ [](debounce.fired = debounce.bursts - (IF debounce.pending = {} THEN 0 ELSE 1))
  /\ [][DebounceFires => debounce.since = DebounceMs]_vars
  /\ (debounce.pending # {}) ~> (debounce.pending = {})

\* three calls in one series, the later ones less than 150 ms after the call
\* before, and one reset: the timer of the last call has fired
C30_Witness ==
  /\ debounce.calls = 3
  /\ debounce.bursts = 1
  /\ debounce.fired = 1
  /\ debounce.pending = {}
  /\ debounce.since = DebounceMs
====
